---- MODULE Spec2Model ----
(***************************************************************************)
(* Verification model of dirfuzz (github.com/maxvaer/dirfuzz).             *)
(*                                                                         *)
(*   ThrottleSpec : scanner.Throttler      (internal/scanner/throttle.go)  *)
(*   DupSpec      : filter.DuplicateFilter (duplicate filter source)       *)
(*   SmartSpec    : filter.SmartFilter     (internal/filter/smart.go)      *)
(*   PoolSpec     : scanner.RunWorkerPool  (internal/scanner/worker.go)    *)
(*   ScanSpec     : runner.runSingleTarget (internal/runner/runner.go)     *)
(*                                                                         *)
(* Durations are in milliseconds.  Paths are sequences of segments; an     *)
(* empty last segment stands for a trailing "/".                           *)
(***************************************************************************)
EXTENDS Integers, Sequences, FiniteSets, TLC

VARIABLES
    throttler,    \* scanner.Throttler: baseDelay, currentDelay, consecutive, enabled
    healthyRun,   \* number of healthy responses recorded since the last throttle signal
    errorRun,     \* number of RecordError calls since the last RecordStatus call
    dup,          \* filter.DuplicateFilter: seen, fuzzySeen, threshold, fuzzyThreshold
    dupHist,      \* every result handed to DuplicateFilter.ShouldFilter so far (result -> count)
    dupLast,      \* the last call of DuplicateFilter.ShouldFilter: result and verdict
    sf,           \* filter.SmartFilter: baselines, threshold (state "none": calibration failed)
    sfLast,       \* the last call of SmartFilter.ShouldFilter: result and verdict
    probeRun,     \* the probe results and threshold a calibration was given
    items,        \* RunWorkerPool: the input list of work items
    threads,      \* cfg.Threads
    pauser,       \* cfg.Pauser: present (non-nil) and paused
    ctxDone,      \* the worker context is cancelled
    producer,     \* the producer goroutine: next index to feed, and whether it returned
    itemsCh,      \* buffered channel of work items (indices into items), and its closed flag
    resultsCh,    \* buffered channel of results, and the number of close() calls on it
    worker,       \* per worker goroutine: pc, the item it holds, the result it is sending
    wg,           \* sync.WaitGroup counter
    closer,       \* the closer goroutine: "waiting" or "done"
    consumer,     \* the reader of the results stream: state and the results received
    poolLog,      \* per item: times dequeued, requested, RecordError called; silent exits; sends on a closed stream
    opts,         \* config.Options of the scan: paths (loaded wordlist), methods, flags
    pc,           \* where runSingleTarget is: root, rec, recpool, crawl0, crawl, crawlpool, done
    scanPool,     \* the work items handed to the running pool, and those without a result yet
    scannedSet,   \* runSingleTarget: scannedSet
    discoveredDirs, \* runSingleTarget: discoveredDirs
    crawledPaths, \* runSingleTarget: crawledPaths
    rec,          \* runRecursive: dirs, index of the current dir, depth, nextDirs
    crawl,        \* runCrawlPasses: newPaths, depth, nextPaths, crawlDirs
    submitted,    \* every (method, path) handed to a pool so far, and those handed twice
    recLog,       \* the directories recursion scanned, per depth, and the results behind them
    gate,         \* scanner.Pauser on its own: paused, and the number of Toggle calls
    waiters,      \* per goroutine calling Pauser.Wait: where it is, and whether it blocked
    file,         \* the resume file on disk: exists, url, completed_paths
    resumeState,  \* runSingleTarget: resumeState (*resume.State; nil before step 5)
    resume,       \* the scan that uses the resume file: position, wordlist, pending items
    expand,       \* step 9 of runSingleTarget: the inputs and the work items built from them
    etaScan,      \* Run and the result loop of runSingleTarget as the ETA check sees them
    chain,        \* filter.Chain: the filters in insertion order, each with its state
    chainLast,    \* the last call of Chain.Apply: result, verdict, the chain before it
    scopes,       \* the chains runSingleTarget and runRecursive build, the calibration requests, the last Apply
    link,         \* one call of crawl.ExtractPaths: base URL, references found, paths returned
    run,          \* Run and runSingleTarget: options, target index, position, chains, writer, pending items
    runLog,       \* history of a run: targets started and probed, and per target what was consumed, written, hooked
    conc,         \* goroutines calling ShouldFilter of one DuplicateFilter at the same time
    tally         \* the counters of stats and progress over the result loops of one target

vars == <<throttler, healthyRun, errorRun, dup, dupHist, dupLast, sf, sfLast, probeRun,
          items, threads, pauser, ctxDone, producer, itemsCh, resultsCh,
          worker, wg, closer, consumer, poolLog,
          opts, pc, scanPool, scannedSet, discoveredDirs, crawledPaths,
          rec, crawl, submitted, recLog, gate, waiters,
          file, resumeState, resume, expand, etaScan, chain, chainLast, scopes, link,
          run, runLog, conc, tally>>

scanVars == <<opts, pc, scanPool, scannedSet, discoveredDirs, crawledPaths,
              rec, crawl, submitted, recLog>>

poolVars == <<items, threads, pauser, ctxDone, producer, itemsCh, resultsCh,
              worker, wg, closer, consumer, poolLog>>

thVars  == <<throttler, healthyRun, errorRun>>
dupVars == <<dup, dupHist, dupLast>>
sfVars  == <<sf, sfLast, probeRun>>
pauseVars == <<gate, waiters>>
resumeVars == <<file, resumeState, resume>>
expandVars == <<expand>>
etaVars == <<etaScan>>
chainVars == <<chain, chainLast, scopes>>
linkVars == <<link>>
runVars == <<run, runLog>>
concVars == <<conc>>
tallyVars == <<tally>>

Max(a, b) == IF a >= b THEN a ELSE b
Min(a, b) == IF a <= b THEN a ELSE b
Abs(x)    == IF x < 0 THEN -x ELSE x

NoCall == [called |-> FALSE]

\* no calibration input recorded
NoProbeRun == [given |-> FALSE]

(***************************************************************************)
(* Throttler                                                               *)
(***************************************************************************)
MinBackoff == 500
MaxDelayMs == 30000

\* configured --delay values that are exercised (ms)
BaseDelays == {0, 100, 1000, 40000}
StatusCodes == {200, 404, 429, 503}

\* bound on the consecutive-signal counter
MaxConsecutive == 4
\* bound on the healthy-run counter; 16 halvings take any delay <= 30 s to 0
MaxHealthy == 16

NewThrottler(baseDelay, enabled) ==
    [baseDelay |-> baseDelay, currentDelay |-> baseDelay,
     maxDelay |-> MaxDelayMs, consecutive |-> 0, enabled |-> enabled]

Delay(t) == IF ~t.enabled THEN t.baseDelay ELSE t.currentDelay

\* the doubling rule without the 500 ms floor
BackOff_noFloor(t) ==
    LET d2 == t.currentDelay * 2
    IN  IF d2 > t.maxDelay THEN t.maxDelay ELSE d2

\* the doubling rule shared by RecordStatus and RecordError
BackOff(t) ==
    LET d2 == t.currentDelay * 2
        d1 == IF d2 < MinBackoff THEN MinBackoff ELSE d2
    IN  IF d1 > t.maxDelay THEN t.maxDelay ELSE d1

\* halving without the clamp at baseDelay
Recover_belowBase(t) == t.currentDelay \div 2

\* gradual recovery: halve the delay, but not below baseDelay
Recover(t) ==
    LET h == t.currentDelay \div 2
    IN  IF h < t.baseDelay THEN t.baseDelay ELSE h

RecordStatus(t, statusCode) ==
    IF ~t.enabled THEN t
    ELSE IF statusCode = 429 \/ statusCode = 503
         THEN [t EXCEPT !.consecutive = @ + 1, !.currentDelay = BackOff(t)]
         ELSE IF t.consecutive > 0
              THEN [t EXCEPT !.consecutive = 0, !.currentDelay = Recover(t)]
              ELSE t

\* RecordError that backs off on every error
RecordError_everyError(t) ==
    IF ~t.enabled THEN t
    ELSE [t EXCEPT !.consecutive = @ + 1, !.currentDelay = BackOff(t)]

RecordError(t) ==
    IF ~t.enabled THEN t
    ELSE IF t.consecutive + 1 >= 3
         THEN [t EXCEPT !.consecutive = @ + 1, !.currentDelay = BackOff(t)]
         ELSE [t EXCEPT !.consecutive = @ + 1]

IsSignal(code) == code = 429 \/ code = 503

ThInit ==
    /\ \E b \in BaseDelays, e \in BOOLEAN : throttler = NewThrottler(b, e)
    /\ healthyRun = 0
    /\ errorRun = 0

ThRecordStatus ==
    \E code \in StatusCodes :
        /\ IsSignal(code) => throttler.consecutive < MaxConsecutive
        /\ ~IsSignal(code) => healthyRun < MaxHealthy
        /\ throttler' = RecordStatus(throttler, code)
        /\ healthyRun' = IF IsSignal(code) THEN 0 ELSE healthyRun + 1
        /\ errorRun' = 0

ThRecordError ==
    /\ throttler.consecutive < MaxConsecutive
    /\ errorRun < MaxConsecutive
    /\ throttler' = RecordError(throttler)
    /\ healthyRun' = 0
    /\ errorRun' = errorRun + 1

(***************************************************************************)
(* Pauser                                                                  *)
(***************************************************************************)
\* bound on the number of goroutines that call Wait
MaxWaiters == 3
\* bound on the number of Toggle calls
MaxToggles == 4

NewPauser == [paused |-> FALSE, toggles |-> 0]

Waiters == DOMAIN waiters

\* a goroutine outside Wait / one that returned from Wait
Outside == [pc |-> "out", blocked |-> FALSE]

\* blocked inside Wait: in cond.Wait, or woken and about to re-check paused
InWait(g) == waiters[g].pc \in {"parked", "woken"}

PauseInit ==
    /\ gate = NewPauser
    /\ \E n \in 1..MaxWaiters : waiters = [g \in 1..n |-> Outside]

\* Wait: lock, first test of p.paused; cond.Wait() or unlock and return
WaitEnter(g) ==
    /\ waiters[g].pc = "out"
    /\ waiters' = [waiters EXCEPT ![g] =
                       IF gate.paused THEN [pc |-> "parked", blocked |-> TRUE]
                       ELSE [pc |-> "returned", blocked |-> FALSE]]
    /\ UNCHANGED gate

\* Wait that tests p.paused once (if instead of for): a woken goroutine returns
WaitWake_noRecheck(g) ==
    /\ waiters[g].pc = "woken"
    /\ waiters' = [waiters EXCEPT ![g].pc = "returned"]
    /\ UNCHANGED gate

\* Wait: cond.Wait() returned with the lock held; the loop tests p.paused again
WaitWake(g) ==
    /\ waiters[g].pc = "woken"
    /\ waiters' = [waiters EXCEPT ![g].pc = IF gate.paused THEN "parked" ELSE "returned"]
    /\ UNCHANGED gate

\* the caller goes on with its item and will call Wait for the next one
WaitReturned(g) ==
    /\ waiters[g].pc = "returned"
    /\ waiters' = [waiters EXCEPT ![g] = Outside]
    /\ UNCHANGED gate

\* Toggle that resumes without cond.Broadcast()
PauserToggle_noBroadcast ==
    /\ gate.toggles < MaxToggles
    /\ gate' = [paused |-> ~gate.paused, toggles |-> gate.toggles + 1]
    /\ UNCHANGED waiters

\* Toggle: flip paused under the lock; on resume, Broadcast wakes every goroutine
\* in cond.Wait
PauserToggle ==
    /\ gate.toggles < MaxToggles
    /\ gate' = [paused |-> ~gate.paused, toggles |-> gate.toggles + 1]
    /\ waiters' = IF gate.paused
                  THEN [g \in Waiters |->
                           IF waiters[g].pc = "parked"
                           THEN [waiters[g] EXCEPT !.pc = "woken"]
                           ELSE waiters[g]]
                  ELSE waiters

(***************************************************************************)
(* DuplicateFilter                                                         *)
(***************************************************************************)
\* bound on the configured duplicate threshold (0 disables the filter: it is
\* then never constructed)
MaxThreshold == 2
\* bound on the number of ShouldFilter calls on one DuplicateFilter
MaxDupCalls == 7

\* results of few bodies: status, body hash, line and word count
DupExactResults ==
    [statusCode : {200}, bodyHash : {"h1", "h2"}, lineCount : {10}, wordCount : {20, 23, 25}]
    \cup [statusCode : {404}, bodyHash : {"h1", "h2"}, lineCount : {10}, wordCount : {20}]

\* results of a page that embeds the requested URL: every body hash differs,
\* the line and word counts repeat; and two pages of another line count
DupShapeResults ==
    [statusCode : {200}, bodyHash : {"h1", "h2", "h3", "h4", "h5", "h6"},
     lineCount : {10}, wordCount : {20}]
    \cup [statusCode : {200}, bodyHash : {"h1", "h2"}, lineCount : {11}, wordCount : {20}]

\* results handed to the duplicate filter
DupResults == DupExactResults \cup DupShapeResults

responseKey_statusOnly(result) == <<result.statusCode, "h1">>

responseKey(result) == <<result.statusCode, result.bodyHash>>

wordBucket(wordCount) == wordCount \div 5

fuzzyKey(result) == <<result.statusCode, result.lineCount, wordBucket(result.wordCount)>>

ResponseKeys == {responseKey(r) : r \in DupResults}
FuzzyKeys == {fuzzyKey(r) : r \in DupResults}

\* fuzzy threshold of 3 * threshold without the minimum of 5
fuzzyT_noMinimum(threshold) == threshold * 3

fuzzyT(threshold) == IF threshold * 3 < 5 THEN 5 ELSE threshold * 3

NewDuplicateFilter(threshold) ==
    [seen |-> [k \in ResponseKeys |-> 0],
     fuzzySeen |-> [k \in FuzzyKeys |-> 0],
     threshold |-> threshold,
     fuzzyThreshold |-> fuzzyT(threshold)]

\* the filter after the two increments of ShouldFilter
DupCount(d, result) ==
    [d EXCEPT !.seen[responseKey(result)] = @ + 1,
              !.fuzzySeen[fuzzyKey(result)] = @ + 1]

DupShouldFilter_offByOne(d, result) ==
    LET d2 == DupCount(d, result)
        exactCount == d2.seen[responseKey(result)]
        fuzzyCount == d2.fuzzySeen[fuzzyKey(result)]
    IN  exactCount >= d.threshold \/ fuzzyCount >= d.fuzzyThreshold

\* the verdict of ShouldFilter, computed from the incremented counters
DupShouldFilter(d, result) ==
    LET d2 == DupCount(d, result)
        exactCount == d2.seen[responseKey(result)]
        fuzzyCount == d2.fuzzySeen[fuzzyKey(result)]
    IN  IF exactCount > d.threshold THEN TRUE
        ELSE IF fuzzyCount > d.fuzzyThreshold THEN TRUE
        ELSE FALSE

DupCalls == LET S == DOMAIN dupHist
                RECURSIVE Sum(_)
                Sum(T) == IF T = {} THEN 0
                          ELSE LET x == CHOOSE y \in T : TRUE
                               IN dupHist[x] + Sum(T \ {x})
            IN Sum(S)

DupInit ==
    /\ \E t \in 1..MaxThreshold : dup = NewDuplicateFilter(t)
    /\ dupHist = [r \in DupResults |-> 0]
    /\ dupLast = NoCall

\* one call d.ShouldFilter(result)
DupCall ==
    \E result \in DupExactResults :
        /\ DupCalls < MaxDupCalls
        /\ dup' = DupCount(dup, result)
        /\ dupLast' = [called |-> TRUE, result |-> result, before |-> dupHist,
                       filtered |-> DupShouldFilter(dup, result)]
        /\ dupHist' = [dupHist EXCEPT ![result] = @ + 1]

\* one call d.ShouldFilter(result) during a scan of URL-embedding pages
DupShapeCall ==
    \E result \in DupShapeResults :
        /\ DupCalls < MaxDupCalls
        /\ dup' = DupCount(dup, result)
        /\ dupLast' = [called |-> TRUE, result |-> result, before |-> dupHist,
                       filtered |-> DupShouldFilter(dup, result)]
        /\ dupHist' = [dupHist EXCEPT ![result] = @ + 1]

(***************************************************************************)
(* DuplicateFilter called from several goroutines                          *)
(***************************************************************************)
\* bound on the number of goroutines calling ShouldFilter at the same time
MaxCallers == 3

\* the results of one (statusCode, bodyHash) key
SameKeyResults == {r \in DupExactResults : responseKey(r) = <<200, "h1">>}

\* a goroutine about to call ShouldFilter(result)
Caller(result) ==
    [pc |-> "lock", result |-> result, exactCount |-> 0, fuzzyCount |-> 0,
     ret |-> FALSE]

\* no goroutine uses the filter
NoCallers == [d |-> NewDuplicateFilter(1), mu |-> 0, callers |-> <<>>]

ConcInit ==
    \E threshold \in 1..MaxThreshold, n \in 1..MaxCallers :
        \E results \in [1..n -> SameKeyResults] :
            conc = [d |-> NewDuplicateFilter(threshold), mu |-> 0,
                    callers |-> [g \in 1..n |-> Caller(results[g])]]

Callers == DOMAIN conc.callers

\* ShouldFilter that does not take d.mu
ConcLock_noMutex(g) ==
    /\ conc.callers[g].pc = "lock"
    /\ conc' = [conc EXCEPT !.callers[g].pc = "incExact"]

\* d.mu.Lock()
ConcLock(g) ==
    /\ conc.callers[g].pc = "lock"
    /\ conc.mu = 0
    /\ conc' = [conc EXCEPT !.mu = g, !.callers[g].pc = "incExact"]

\* d.seen[exact]++
ConcIncExact(g) ==
    /\ conc.callers[g].pc = "incExact"
    /\ conc' = [conc EXCEPT
                   !.d.seen[responseKey(conc.callers[g].result)] = @ + 1,
                   !.callers[g].pc = "readExact"]

\* exactCount := d.seen[exact]
ConcReadExact(g) ==
    /\ conc.callers[g].pc = "readExact"
    /\ conc' = [conc EXCEPT
                   !.callers[g].exactCount =
                       conc.d.seen[responseKey(conc.callers[g].result)],
                   !.callers[g].pc = "incFuzzy"]

\* d.fuzzySeen[fuzzy]++
ConcIncFuzzy(g) ==
    /\ conc.callers[g].pc = "incFuzzy"
    /\ conc' = [conc EXCEPT
                   !.d.fuzzySeen[fuzzyKey(conc.callers[g].result)] = @ + 1,
                   !.callers[g].pc = "readFuzzy"]

\* fuzzyCount := d.fuzzySeen[fuzzy]
ConcReadFuzzy(g) ==
    /\ conc.callers[g].pc = "readFuzzy"
    /\ conc' = [conc EXCEPT
                   !.callers[g].fuzzyCount =
                       conc.d.fuzzySeen[fuzzyKey(conc.callers[g].result)],
                   !.callers[g].pc = "unlock"]

\* d.mu.Unlock()
ConcUnlock(g) ==
    /\ conc.callers[g].pc = "unlock"
    /\ conc' = [conc EXCEPT !.mu = 0, !.callers[g].pc = "test"]

\* the two tests on the local counts, and the return
ConcReturn(g) ==
    /\ conc.callers[g].pc = "test"
    /\ conc' = [conc EXCEPT
                   !.callers[g].ret =
                       IF conc.callers[g].exactCount > conc.d.threshold THEN TRUE
                       ELSE IF conc.callers[g].fuzzyCount > conc.d.fuzzyThreshold THEN TRUE
                       ELSE FALSE,
                   !.callers[g].pc = "done"]

ConcIdle == conc = NoCallers

(***************************************************************************)
(* SmartFilter                                                             *)
(***************************************************************************)
matchHashExact == "EXACT_HASH"
matchFuzzyLength == "FUZZY_LENGTH"

\* bound on the number of calibration probes that succeed (the code sends 5)
MaxProbes == 4

Fingerprint(code, len, hash, words, lines) ==
    [statusCode |-> code, contentLength |-> len, bodyHash |-> hash,
     wordCount |-> words, lineCount |-> lines]

\* responses the calibration probes can get
ProbeResults ==
    {Fingerprint(c, 100, "h1", 10, 5) : c \in {200, 404}}
    \cup {Fingerprint(c, 130, "h2", 200, 40) : c \in {200, 404}}
    \cup {Fingerprint(c, 140, "h3", 14, 7) : c \in {200, 404}}

\* configured --smart-filter-threshold values that are exercised (bytes)
Thresholds == {10, 50}

\* results handed to the smart filter
SmartResults ==
    [statusCode : {200, 404}, contentLength : {0, 80, 140, 181, 191},
     bodyHash : {"h1", "h9"}, wordCount : {10, 190, 211},
     lineCount : {5, 44, 45}]

RECURSIVE InsertSorted(_, _)
InsertSorted(sorted, v) ==
    IF sorted = <<>> THEN <<v>>
    ELSE IF v <= Head(sorted) THEN <<v>> \o sorted
    ELSE <<Head(sorted)>> \o InsertSorted(Tail(sorted), v)

RECURSIVE SortInts(_)
SortInts(vals) ==
    IF vals = <<>> THEN <<>>
    ELSE InsertSorted(SortInts(Tail(vals)), Head(vals))

\* medianInt64 / medianInt: sorted[len(sorted)/2], zero-based
medianInt(vals) == SortInts(vals)[(Len(vals) \div 2) + 1]

\* groups[code]: the probe results with this status, in probe order
RECURSIVE GroupOf(_, _)
GroupOf(results, code) ==
    IF results = <<>> THEN <<>>
    ELSE IF Head(results).statusCode = code
         THEN <<Head(results)>> \o GroupOf(Tail(results), code)
         ELSE GroupOf(Tail(results), code)

\* a group of one probe already yields a baseline
GroupBaseline_single(group, code, threshold) ==
    IF Len(group) < 1 THEN <<>>
    ELSE << [statusCode |-> code, contentLength |-> group[1].contentLength,
             bodyHash |-> group[1].bodyHash, wordCount |-> group[1].wordCount,
             lineCount |-> group[1].lineCount, mode |-> matchHashExact] >>

\* the baseline of one status group, or <<>> when the group yields none
GroupBaseline(group, code, threshold) ==
    IF Len(group) < 2 THEN <<>>
    ELSE IF \A i \in 2..Len(group) : group[i].bodyHash = group[1].bodyHash
    THEN << [statusCode |-> code, contentLength |-> group[1].contentLength,
             bodyHash |-> group[1].bodyHash, wordCount |-> group[1].wordCount,
             lineCount |-> group[1].lineCount, mode |-> matchHashExact] >>
    ELSE LET lengths == [i \in 1..Len(group) |-> group[i].contentLength]
             words == [i \in 1..Len(group) |-> group[i].wordCount]
             lines == [i \in 1..Len(group) |-> group[i].lineCount]
             medianLen == medianInt(lengths)
             converges == \A i \in 1..Len(lengths) :
                              Abs(lengths[i] - medianLen) <= threshold
         IN  IF converges
             THEN << [statusCode |-> code, contentLength |-> medianLen,
                      bodyHash |-> "zero", wordCount |-> medianInt(words),
                      lineCount |-> medianInt(lines), mode |-> matchFuzzyLength] >>
             ELSE <<>>

RECURSIVE BaselinesIn(_, _, _)
BaselinesIn(results, codes, threshold) ==
    IF codes = <<>> THEN <<>>
    ELSE GroupBaseline(GroupOf(results, Head(codes)), Head(codes), threshold)
         \o BaselinesIn(results, Tail(codes), threshold)

\* codes: the order in which the map of groups is iterated
buildSmartFilter(results, codes, threshold) ==
    IF Len(results) < 2 THEN [state |-> "none"]
    ELSE LET baselines == BaselinesIn(results, codes, threshold)
         IN  IF Len(baselines) = 0 THEN [state |-> "none"]
             ELSE [state |-> "ready", baselines |-> baselines, threshold |-> threshold]

FuzzyMatches_noMinimumTolerance(b, threshold, result) ==
    LET lengthOK == Abs(result.contentLength - b.contentLength) <= threshold
        wordOK == Abs(result.wordCount - b.wordCount) <= b.wordCount \div 20
        lineOK == Abs(result.lineCount - b.lineCount) <= b.lineCount \div 10
    IN  (IF lengthOK THEN 1 ELSE 0) + (IF wordOK THEN 1 ELSE 0)
        + (IF lineOK THEN 1 ELSE 0)

\* the number of metrics within tolerance (matches)
FuzzyMatches(b, threshold, result) ==
    LET lengthOK == Abs(result.contentLength - b.contentLength) <= threshold
        wordThreshold == Max(5, b.wordCount \div 20)
        wordOK == Abs(result.wordCount - b.wordCount) <= wordThreshold
        lineThreshold == Max(2, b.lineCount \div 10)
        lineOK == Abs(result.lineCount - b.lineCount) <= lineThreshold
    IN  (IF lengthOK THEN 1 ELSE 0) + (IF wordOK THEN 1 ELSE 0)
        + (IF lineOK THEN 1 ELSE 0)

BaselineVerdict_lengthAlsoMatches(b, threshold, result) ==
    IF b.mode = matchHashExact
    THEN result.bodyHash = b.bodyHash
         \/ Abs(result.contentLength - b.contentLength) <= threshold
    ELSE FuzzyMatches(b, threshold, result) >= 2

\* the switch on b.mode for the baseline whose status matches
BaselineVerdict(b, threshold, result) ==
    IF b.mode = matchHashExact
    THEN result.bodyHash = b.bodyHash
    ELSE FuzzyMatches(b, threshold, result) >= 2

RECURSIVE MatchBaselines(_, _, _)
MatchBaselines(baselines, threshold, result) ==
    IF baselines = <<>> THEN FALSE
    ELSE LET b == Head(baselines)
         IN  IF result.statusCode # b.statusCode
             THEN MatchBaselines(Tail(baselines), threshold, result)
             ELSE BaselineVerdict(b, threshold, result)

\* ShouldFilter without the test for an empty 200 response
SmartShouldFilter_noEmptyRule(f, result) ==
    MatchBaselines(f.baselines, f.threshold, result)

SmartShouldFilter(f, result) ==
    IF result.statusCode = 200 /\ result.contentLength = 0 THEN TRUE
    ELSE MatchBaselines(f.baselines, f.threshold, result)

CodeOrders == {<<200, 404>>, <<404, 200>>}

ProbeRuns == UNION {[1..n -> ProbeResults] : n \in 0..MaxProbes}

SfInit ==
    /\ sf = [state |-> "new"]
    /\ sfLast = NoCall
    /\ probeRun = NoProbeRun

\* NewSmartFilter: calibration; "none" when it returns an error
Calibrate ==
    /\ sf.state = "new"
    /\ \E results \in ProbeRuns, codes \in CodeOrders, threshold \in Thresholds :
           sf' = buildSmartFilter(results, codes, threshold)
    /\ UNCHANGED <<sfLast, probeRun>>

\* one call sf.ShouldFilter(result)
Classify ==
    /\ sf.state = "ready"
    /\ \E result \in SmartResults :
           sfLast' = [called |-> TRUE, result |-> result,
                      filtered |-> SmartShouldFilter(sf, result)]
    /\ UNCHANGED <<sf, probeRun>>

\* the successful probes of one calibration, the order in which the map of
\* groups is iterated, and --smart-filter-threshold
CalibrationInit ==
    /\ sf = [state |-> "new"]
    /\ sfLast = NoCall
    /\ \E results \in ProbeRuns, codes \in CodeOrders, threshold \in Thresholds :
           probeRun = [given |-> TRUE, results |-> results, codes |-> codes,
                       threshold |-> threshold]

\* NewSmartFilter on the recorded probes: buildSmartFilter(results, ...)
CalibrateRun ==
    /\ sf.state = "new"
    /\ sf' = buildSmartFilter(probeRun.results, probeRun.codes, probeRun.threshold)
    /\ UNCHANGED <<sfLast, probeRun>>

(***************************************************************************)
(* RunWorkerPool                                                           *)
(***************************************************************************)
\* bound on the number of work items of one pool
MaxItems == 3
\* bound on cfg.Threads
MaxThreads == 2

WorkItem(method, path, host) == [Method |-> method, Path |-> path, Host |-> host]

\* the i-th work item of the input list; items 1 and 2 are two methods of one path
ItemAt(i) ==
    WorkItem(IF i % 2 = 1 THEN "GET" ELSE "POST",
             IF i <= 2 THEN <<"admin">> ELSE <<"login">>, "")

\* statuses the server answers to the pool's requests
PoolStatuses == {200, 429}

Capacity == threads * 2

Workers == 1..threads

ErrorResult(i, item) ==
    [idx |-> i, Method |-> item.Method, Host |-> item.Host, Path |-> item.Path,
     Error |-> TRUE, StatusCode |-> 0]

OkResult(i, item, code) ==
    [idx |-> i, Method |-> item.Method, Host |-> item.Host, Path |-> item.Path,
     Error |-> FALSE, StatusCode |-> code]

Idle == [pc |-> "recv", item |-> 0, result |-> <<>>]
Exited == [pc |-> "done", item |-> 0, result |-> <<>>]

PoolInit ==
    /\ \E n \in 0..MaxItems : items = [i \in 1..n |-> ItemAt(i)]
    /\ threads \in 1..MaxThreads
    /\ throttler \in {NewThrottler(0, TRUE), NewThrottler(100, FALSE)}
    /\ healthyRun = 0
    /\ errorRun = 0
    /\ \E present \in BOOLEAN : pauser = [present |-> present, paused |-> FALSE]
    /\ ctxDone = FALSE
    /\ producer = [next |-> 1, done |-> FALSE]
    /\ itemsCh = [buf |-> <<>>, closed |-> FALSE]
    /\ resultsCh = [buf |-> <<>>, closes |-> 0]
    /\ worker = [w \in Workers |-> Idle]
    /\ wg = threads
    /\ closer = "waiting"
    /\ consumer = [state |-> "reading", received |-> <<>>]
    /\ poolLog = [dequeued |-> [i \in DOMAIN items |-> 0],
                  requested |-> [i \in DOMAIN items |-> 0],
                  errorsRecorded |-> [i \in DOMAIN items |-> 0],
                  silent |-> {},
                  sentAfterClose |-> FALSE,
                  heldAtPause |-> [w \in Workers |-> 0],
                  sentPaused |-> [w \in Workers |-> <<>>]]

\* producer: case itemsCh <- item
ProducerSend ==
    /\ ~producer.done
    /\ producer.next <= Len(items)
    /\ Len(itemsCh.buf) < Capacity
    /\ itemsCh' = [itemsCh EXCEPT !.buf = Append(@, producer.next)]
    /\ producer' = [producer EXCEPT !.next = @ + 1]
    /\ UNCHANGED <<items, threads, pauser, ctxDone, resultsCh, worker, wg,
                   closer, consumer, poolLog, thVars>>

\* producer: case <-ctx.Done(): return, and the deferred close(itemsCh)
ProducerCancelled ==
    /\ ~producer.done
    /\ producer.next <= Len(items)
    /\ ctxDone
    /\ producer' = [producer EXCEPT !.done = TRUE]
    /\ itemsCh' = [itemsCh EXCEPT !.closed = TRUE]
    /\ UNCHANGED <<items, threads, pauser, ctxDone, resultsCh, worker, wg,
                   closer, consumer, poolLog, thVars>>

\* a producer that returns without closing itemsCh
ProducerFinish_noClose ==
    /\ ~producer.done
    /\ producer.next > Len(items)
    /\ producer' = [producer EXCEPT !.done = TRUE]
    /\ UNCHANGED <<items, threads, pauser, ctxDone, itemsCh, resultsCh, worker, wg,
                   closer, consumer, poolLog, thVars>>

\* producer: the loop is over, the deferred close(itemsCh) runs
ProducerFinish ==
    /\ ~producer.done
    /\ producer.next > Len(items)
    /\ producer' = [producer EXCEPT !.done = TRUE]
    /\ itemsCh' = [itemsCh EXCEPT !.closed = TRUE]
    /\ UNCHANGED <<items, threads, pauser, ctxDone, resultsCh, worker, wg,
                   closer, consumer, poolLog, thVars>>

\* the worker returns: deferred wg.Done()
WorkerExit(w) ==
    /\ worker' = [worker EXCEPT ![w] = Exited]
    /\ wg' = wg - 1

WorkerRecv_peek(w) ==
    /\ worker[w].pc = "recv"
    /\ Len(itemsCh.buf) > 0
    /\ LET i == Head(itemsCh.buf)
       IN  /\ worker' = [worker EXCEPT ![w] = [pc |-> "pause", item |-> i, result |-> <<>>]]
           /\ poolLog' = [poolLog EXCEPT !.dequeued[i] = @ + 1]
    /\ UNCHANGED <<itemsCh, wg>>
    /\ UNCHANGED <<items, threads, pauser, ctxDone, producer, resultsCh,
                   closer, consumer, thVars>>

\* worker: for item := range itemsCh
WorkerRecv(w) ==
    /\ worker[w].pc = "recv"
    /\ \/ /\ Len(itemsCh.buf) > 0
          /\ LET i == Head(itemsCh.buf)
             IN  /\ worker' = [worker EXCEPT
                        ![w] = [pc |-> "pause", item |-> i, result |-> <<>>]]
                 /\ poolLog' = [poolLog EXCEPT !.dequeued[i] = @ + 1]
          /\ itemsCh' = [itemsCh EXCEPT !.buf = Tail(@)]
          /\ UNCHANGED wg
       \/ /\ Len(itemsCh.buf) = 0
          /\ itemsCh.closed
          /\ WorkerExit(w)
          /\ UNCHANGED <<itemsCh, poolLog>>
    /\ UNCHANGED <<items, threads, pauser, ctxDone, producer, resultsCh,
                   closer, consumer, thVars>>

\* a worker that does not call cfg.Pauser.Wait()
WorkerPause_noWait(w) ==
    /\ worker[w].pc = "pause"
    /\ worker' = [worker EXCEPT ![w].pc = "delay"]
    /\ UNCHANGED <<items, threads, pauser, ctxDone, producer, itemsCh, resultsCh,
                   wg, closer, consumer, poolLog, thVars>>

\* worker: cfg.Pauser.Wait() returns (at once when cfg.Pauser is nil)
WorkerPause(w) ==
    /\ worker[w].pc = "pause"
    /\ ~(pauser.present /\ pauser.paused)
    /\ worker' = [worker EXCEPT ![w].pc = "delay"]
    /\ UNCHANGED <<items, threads, pauser, ctxDone, producer, itemsCh, resultsCh,
                   wg, closer, consumer, poolLog, thVars>>

\* worker: delay := cfg.Throttler.Delay() and the select on time.After / ctx.Done
WorkerDelay(w) ==
    /\ worker[w].pc = "delay"
    /\ \/ /\ worker' = [worker EXCEPT ![w].pc = "req"]
          /\ UNCHANGED wg
       \/ /\ Delay(throttler) > 0
          /\ ctxDone
          /\ WorkerExit(w)
    /\ UNCHANGED <<items, threads, pauser, ctxDone, producer, itemsCh, resultsCh,
                   closer, consumer, poolLog, thVars>>

\* a worker that calls RecordError before it tests ctx.Err()
WorkerDo_recordsFirst(w) ==
    /\ worker[w].pc = "req"
    /\ LET i == worker[w].item
           requested == [poolLog EXCEPT !.requested[i] = @ + 1]
       IN
       \/ /\ ctxDone
          /\ throttler' = RecordError(throttler)
          /\ poolLog' = [requested EXCEPT !.errorsRecorded[i] = @ + 1,
                                          !.silent = @ \cup {i}]
          /\ WorkerExit(w)
          /\ UNCHANGED <<healthyRun, errorRun>>
       \/ /\ ~ctxDone
          /\ throttler' = RecordError(throttler)
          /\ poolLog' = [requested EXCEPT !.errorsRecorded[i] = @ + 1]
          /\ worker' = [worker EXCEPT ![w] =
                 [pc |-> "send", item |-> i, result |-> ErrorResult(i, items[i])]]
          /\ UNCHANGED <<wg, healthyRun, errorRun>>
       \/ \E code \in PoolStatuses :
             /\ ~ctxDone
             /\ throttler' = RecordStatus(throttler, code)
             /\ poolLog' = requested
             /\ worker' = [worker EXCEPT ![w] =
                    [pc |-> "send", item |-> i, result |-> OkResult(i, items[i], code)]]
             /\ UNCHANGED <<wg, healthyRun, errorRun>>
    /\ UNCHANGED <<items, threads, pauser, ctxDone, producer, itemsCh, resultsCh,
                   closer, consumer>>

\* worker: req.Do and what follows it up to the send on resultsCh
WorkerDo(w) ==
    /\ worker[w].pc = "req"
    /\ LET i == worker[w].item
           requested == [poolLog EXCEPT !.requested[i] = @ + 1]
       IN
       \/ \* err != nil and ctx.Err() != nil: return
          /\ ctxDone
          /\ poolLog' = [requested EXCEPT !.silent = @ \cup {i}]
          /\ WorkerExit(w)
          /\ UNCHANGED thVars
       \/ \* err != nil: RecordError, build the error result
          /\ ~ctxDone
          /\ throttler' = RecordError(throttler)
          /\ poolLog' = [requested EXCEPT !.errorsRecorded[i] = @ + 1]
          /\ worker' = [worker EXCEPT ![w] =
                 [pc |-> "send", item |-> i, result |-> ErrorResult(i, items[i])]]
          /\ UNCHANGED <<wg, healthyRun, errorRun>>
       \/ \* a response (a request under a cancelled context fails):
          \* RecordStatus, build the result
          \E code \in PoolStatuses :
             /\ ~ctxDone
             /\ throttler' = RecordStatus(throttler, code)
             /\ poolLog' = requested
             /\ worker' = [worker EXCEPT ![w] =
                    [pc |-> "send", item |-> i, result |-> OkResult(i, items[i], code)]]
             /\ UNCHANGED <<wg, healthyRun, errorRun>>
    /\ UNCHANGED <<items, threads, pauser, ctxDone, producer, itemsCh, resultsCh,
                   closer, consumer>>

\* worker: resultsCh <- result
WorkerSend(w) ==
    /\ worker[w].pc = "send"
    /\ Len(resultsCh.buf) < Capacity
    /\ resultsCh' = [resultsCh EXCEPT !.buf = Append(@, worker[w].result)]
    /\ poolLog' = [poolLog EXCEPT
           !.sentAfterClose = @ \/ resultsCh.closes > 0,
           !.sentPaused[w] = IF pauser.present /\ pauser.paused
                             THEN Append(@, worker[w].item) ELSE @]
    /\ worker' = [worker EXCEPT ![w] = Idle]
    /\ UNCHANGED <<items, threads, pauser, ctxDone, producer, itemsCh,
                   wg, closer, consumer, thVars>>

Closer_whenProducerDone ==
    /\ closer = "waiting"
    /\ producer.done /\ Len(itemsCh.buf) = 0
    /\ closer' = "done"
    /\ resultsCh' = [resultsCh EXCEPT !.closes = @ + 1]
    /\ UNCHANGED <<items, threads, pauser, ctxDone, producer, itemsCh, worker,
                   wg, consumer, poolLog, thVars>>

\* closer: wg.Wait() returns, close(resultsCh)
Closer ==
    /\ closer = "waiting"
    /\ wg = 0
    /\ closer' = "done"
    /\ resultsCh' = [resultsCh EXCEPT !.closes = @ + 1]
    /\ UNCHANGED <<items, threads, pauser, ctxDone, producer, itemsCh, worker,
                   wg, consumer, poolLog, thVars>>

\* the reader of the stream receives one result
ConsumerRecv ==
    /\ consumer.state = "reading"
    /\ Len(resultsCh.buf) > 0
    /\ consumer' = [consumer EXCEPT !.received = Append(@, Head(resultsCh.buf))]
    /\ resultsCh' = [resultsCh EXCEPT !.buf = Tail(@)]
    /\ UNCHANGED <<items, threads, pauser, ctxDone, producer, itemsCh, worker,
                   wg, closer, poolLog, thVars>>

\* the reader sees the stream closed and drained
ConsumerClosed ==
    /\ consumer.state = "reading"
    /\ Len(resultsCh.buf) = 0
    /\ resultsCh.closes > 0
    /\ consumer' = [consumer EXCEPT !.state = "done"]
    /\ UNCHANGED <<items, threads, pauser, ctxDone, producer, itemsCh, resultsCh,
                   worker, wg, closer, poolLog, thVars>>

\* the reader stops reading (it returns from its loop without draining)
ConsumerStop ==
    /\ consumer.state = "reading"
    /\ consumer' = [consumer EXCEPT !.state = "stopped"]
    /\ UNCHANGED <<items, threads, pauser, ctxDone, producer, itemsCh, resultsCh,
                   worker, wg, closer, poolLog, thVars>>

\* workerCancel() or the parent context's cancellation
Cancel ==
    /\ ~ctxDone
    /\ ctxDone' = TRUE
    /\ UNCHANGED <<items, threads, pauser, producer, itemsCh, resultsCh,
                   worker, wg, closer, consumer, poolLog, thVars>>

\* the item a worker holds once cfg.Pauser.Wait() has returned for it, else 0
PastWait(w) == IF worker[w].pc \in {"delay", "req", "send"} THEN worker[w].item ELSE 0

\* Pauser.Toggle, with the record of what each worker held when the gate
\* closed and an empty record of what was sent since
Toggle ==
    /\ pauser.present
    /\ pauser' = [pauser EXCEPT !.paused = ~@]
    /\ poolLog' = [poolLog EXCEPT
           !.heldAtPause = IF pauser.paused THEN [w \in Workers |-> 0]
                           ELSE [w \in Workers |-> PastWait(w)],
           !.sentPaused = [w \in Workers |-> <<>>]]
    /\ UNCHANGED <<items, threads, ctxDone, producer, itemsCh, resultsCh,
                   worker, wg, closer, consumer, thVars>>

(***************************************************************************)
(* runSingleTarget, runRecursive, runCrawlPasses                           *)
(***************************************************************************)
\* bound on opts.MaxDepth
MaxMaxDepth == 2
\* bound on opts.CrawlDepth
MaxCrawlDepth == 2

\* bound on the length of a list of directories to recurse into
MaxDirs == 2

\* loaded wordlists and method lists that are exercised (wordlist.Load removes
\* equal entries)
ScanInputs ==
    {[paths |-> << <<"admin">> >>, methods |-> <<"GET", "POST">>],
     [paths |-> << <<"admin">>, <<"a.js">> >>, methods |-> <<"GET">>]}

\* the lists of paths crawl.ExtractPaths can return for a body
LinkLists ==
    { <<>>, << <<"admin">>, <<"admin", "login">> >>,
      << <<"admin", "admin">>, <<"js", "a.js">> >> }

\* directories for which the target answers GET dir/ with its catch-all page,
\* the page the root scope's Smart Filter was calibrated on
Soft404Dirs == {<<"admin">>, <<"js">>}

\* segments that contain a dot
Dotted == {"a.js"}

RECURSIVE TrimRightSlash(_)
TrimRightSlash(path) ==
    IF path # <<>> /\ path[Len(path)] = ""
    THEN TrimRightSlash(SubSeq(path, 1, Len(path) - 1))
    ELSE path

RECURSIVE TrimLeftSlash(_)
TrimLeftSlash(path) ==
    IF path # <<>> /\ Head(path) = "" THEN TrimLeftSlash(Tail(path)) ELSE path

\* strings.TrimRight(dir, "/") + "/" + strings.TrimLeft(p, "/")
JoinDir(dir, p) ==
    LET q == TrimLeftSlash(p)
    IN  TrimRightSlash(dir) \o (IF q = <<>> THEN <<"">> ELSE q)

\* the key dir + "/"
DirKey(dir) == dir \o <<"">>

extractParentDirs(path, maxDepth) ==
    LET parts == TrimLeftSlash(path)
        n == Min(Len(parts) - 1, maxDepth)
    IN  IF Len(parts) <= 1 THEN <<>>
        ELSE [i \in 1..n |-> SubSeq(parts, 1, i)]

looksLikeDirectory(result) ==
    IF result.Path # <<>> /\ result.Path[Len(result.Path)] = "" THEN TRUE
    ELSE IF result.StatusCode >= 300 /\ result.StatusCode < 400 /\ result.redirectsToDir
    THEN TRUE
    ELSE IF result.StatusCode >= 200 /\ result.StatusCode < 300
    THEN result.Path[Len(result.Path)] \notin Dotted
    ELSE FALSE

RECURSIVE expandItems(_, _)
expandItems(paths, methods) ==
    IF paths = <<>> THEN <<>>
    ELSE [m \in 1..Len(methods) |-> WorkItem(methods[m], Head(paths), "")]
         \o expandItems(Tail(paths), methods)

SeqSet(q) == {q[i] : i \in DOMAIN q}

\* what the pool and the filter chain make of one work item
Outcomes ==
    {[kind |-> "error", StatusCode |-> 0, redirectsToDir |-> FALSE, links |-> <<>>],
     [kind |-> "filtered", StatusCode |-> 200, redirectsToDir |-> FALSE, links |-> <<>>],
     [kind |-> "found", StatusCode |-> 301, redirectsToDir |-> TRUE, links |-> <<>>],
     [kind |-> "found", StatusCode |-> 403, redirectsToDir |-> FALSE, links |-> <<>>]}
    \cup {[kind |-> "found", StatusCode |-> 200, redirectsToDir |-> FALSE, links |-> l] :
             l \in LinkLists}

ScanResult(item, outcome) ==
    [Method |-> item.Method, Path |-> item.Path, Host |-> item.Host,
     StatusCode |-> outcome.StatusCode, redirectsToDir |-> outcome.redirectsToDir]

\* scanner.RunWorkerPool(ctx, req, newItems, workerCfg), with the record of
\* what was handed to a pool before
RunPool(newItems) ==
    /\ scanPool' = [items |-> newItems, left |-> DOMAIN newItems]
    /\ submitted' =
         [all |-> submitted.all \cup SeqSet(newItems),
          twice |-> submitted.twice
                    \cup (SeqSet(newItems) \cap submitted.all)
                    \cup {newItems[i] : i \in {j \in DOMAIN newItems :
                              \E k \in DOMAIN newItems : k < j /\ newItems[k] = newItems[j]}}]

\* AddNew without the test of scannedSet
RECURSIVE AddNew_noSeenCheck(_, _, _)
AddNew_noSeenCheck(acc, seen, paths) ==
    IF paths = <<>> THEN [list |-> acc, seen |-> seen]
    ELSE AddNew_noSeenCheck(Append(acc, Head(paths)), seen \cup {Head(paths)}, Tail(paths))

\* for _, p := range newPaths { if !already { append; scannedSet[p] } }
RECURSIVE AddNew(_, _, _)
AddNew(acc, seen, paths) ==
    IF paths = <<>> THEN [list |-> acc, seen |-> seen]
    ELSE IF Head(paths) \in seen THEN AddNew(acc, seen, Tail(paths))
    ELSE AddNew(Append(acc, Head(paths)), seen \cup {Head(paths)}, Tail(paths))

\* the same loop over dir + "/" keys
RECURSIVE AddNewDirs(_, _, _)
AddNewDirs(acc, seen, dirs) ==
    IF dirs = <<>> THEN [list |-> acc, seen |-> seen]
    ELSE IF DirKey(Head(dirs)) \in seen THEN AddNewDirs(acc, seen, Tail(dirs))
    ELSE AddNewDirs(Append(acc, Head(dirs)), seen \cup {DirKey(Head(dirs))}, Tail(dirs))

RECURSIVE ParentDirsOf(_, _)
ParentDirsOf(paths, maxDepth) ==
    IF paths = <<>> THEN <<>>
    ELSE extractParentDirs(Head(paths), maxDepth) \o ParentDirsOf(Tail(paths), maxDepth)

NoRec == [dirs |-> <<>>, idx |-> 1, depth |-> 0, nextDirs |-> <<>>, after |-> "done"]
\* history of the recursion: the directories scanned, with their depth and the
\* call of runRecursive they belong to; the paths of the directory-looking
\* results that passed the chain, per level; and the directories that the
\* results passing the chain in the root scan and the crawl passes stand for;
\* and of the crawl: the number of passes run, the paths handed to a pass, and
\* those handed to a pass more than once
NoRecLog == [levels |-> {}, accepted |-> {}, outside |-> {},
             passes |-> 0, crawled |-> {}, crawledTwice |-> {}]

\* the entries of a list that occur in it at an earlier index as well
Repeated(list) ==
    {list[j] : j \in {k \in DOMAIN list : \E i \in DOMAIN list : i < k /\ list[i] = list[k]}}

\* the directories one result that passed the chain stands for: its own path
\* when it looks like a directory, and the parents of the links in its body
DirsBehind(result, links) ==
    (IF looksLikeDirectory(result) THEN {result.Path} ELSE {})
    \cup SeqSet(ParentDirsOf(links, opts.MaxDepth))
NoCrawl == [newPaths |-> <<>>, depth |-> 0, nextPaths |-> <<>>, crawlDirs |-> <<>>]

\* runSingleTarget up to the call of RunWorkerPool for the root scan
ScanInit ==
    /\ \E in \in ScanInputs, recursive \in BOOLEAN, crawling \in BOOLEAN,
          maxDepth \in 1..MaxMaxDepth, crawlDepth \in 1..MaxCrawlDepth :
          opts = [paths |-> in.paths, methods |-> in.methods, Recursive |-> recursive,
                  Crawl |-> crawling, VHost |-> FALSE,
                  MaxDepth |-> maxDepth, CrawlDepth |-> crawlDepth]
    /\ pc = "root"
    /\ LET rootItems == expandItems(opts.paths, opts.methods)
       IN  /\ scanPool = [items |-> rootItems, left |-> DOMAIN rootItems]
           /\ submitted = [all |-> SeqSet(rootItems), twice |-> {}]
           /\ scannedSet = {rootItems[i].Path : i \in DOMAIN rootItems}
    /\ discoveredDirs = <<>>
    /\ crawledPaths = <<>>
    /\ rec = NoRec
    /\ crawl = NoCrawl
    /\ recLog = NoRecLog

\* root scan: the body of "for result := range results" for one result
RootResult ==
    /\ pc = "root"
    /\ \E i \in scanPool.left, o \in Outcomes :
        LET result == ScanResult(scanPool.items[i], o)
            crawled == IF o.kind = "found" /\ opts.Crawl
                       THEN AddNew(crawledPaths, scannedSet, o.links)
                       ELSE [list |-> crawledPaths, seen |-> scannedSet]
            inferred == IF o.kind = "found" /\ opts.Crawl /\ opts.Recursive /\ ~opts.VHost
                        THEN AddNewDirs(discoveredDirs, crawled.seen,
                                        ParentDirsOf(o.links, opts.MaxDepth))
                        ELSE [list |-> discoveredDirs, seen |-> crawled.seen]
        IN  /\ scanPool' = [scanPool EXCEPT !.left = @ \ {i}]
            /\ crawledPaths' = crawled.list
            /\ scannedSet' = inferred.seen
            /\ discoveredDirs' =
                 IF o.kind = "found" /\ opts.Recursive /\ ~opts.VHost
                    /\ looksLikeDirectory(result)
                 THEN Append(inferred.list, result.Path)
                 ELSE inferred.list
            /\ Len(discoveredDirs') <= MaxDirs
            /\ recLog' = IF o.kind = "found" /\ opts.Recursive
                         THEN [recLog EXCEPT !.outside = @ \cup DirsBehind(result, o.links)]
                         ELSE recLog
    /\ UNCHANGED <<opts, pc, rec, crawl, submitted>>

\* root scan: the stream is closed; steps 11 and 12 decide what runs next
RootDone ==
    /\ pc = "root"
    /\ scanPool.left = {}
    /\ IF opts.Recursive /\ ~opts.VHost /\ Len(discoveredDirs) > 0
       THEN /\ rec' = [dirs |-> discoveredDirs, idx |-> 1, depth |-> 1,
                       nextDirs |-> <<>>, after |-> "crawl0"]
            /\ pc' = "rec"
       ELSE /\ pc' = "crawl0"
            /\ UNCHANGED rec
    /\ UNCHANGED <<opts, scanPool, scannedSet, discoveredDirs, crawledPaths,
                   crawl, submitted, recLog>>

\* runRecursive: depth > opts.MaxDepth, return nil
RecTooDeep ==
    /\ pc = "rec"
    /\ rec.depth > opts.MaxDepth
    /\ pc' = rec.after
    /\ UNCHANGED <<opts, scanPool, scannedSet, discoveredDirs, crawledPaths,
                   rec, crawl, submitted, recLog>>

\* RecStartDir without "if depth > opts.MaxDepth { return nil }"
RecStartDir_noDepthLimit ==
    /\ pc = "rec"
    /\ rec.idx <= Len(rec.dirs)
    /\ LET dir == rec.dirs[rec.idx]
           newPaths == [i \in DOMAIN opts.paths |-> JoinDir(dir, opts.paths[i])]
       IN  /\ RunPool(expandItems(newPaths, opts.methods))
           /\ recLog' = [recLog EXCEPT !.levels =
                            @ \cup {[call |-> rec.after, depth |-> rec.depth, dir |-> dir]}]
    /\ pc' = "recpool"
    /\ UNCHANGED <<opts, scannedSet, discoveredDirs, crawledPaths, rec, crawl>>

\* runRecursive: the loop body for one dir up to RunWorkerPool
RecStartDir ==
    /\ pc = "rec"
    /\ rec.depth <= opts.MaxDepth
    /\ rec.idx <= Len(rec.dirs)
    /\ LET dir == rec.dirs[rec.idx]
           newPaths == [i \in DOMAIN opts.paths |-> JoinDir(dir, opts.paths[i])]
       IN  /\ RunPool(expandItems(newPaths, opts.methods))
           /\ recLog' = [recLog EXCEPT !.levels =
                            @ \cup {[call |-> rec.after, depth |-> rec.depth, dir |-> dir]}]
    /\ pc' = "recpool"
    /\ UNCHANGED <<opts, scannedSet, discoveredDirs, crawledPaths, rec, crawl>>

\* runRecursive: the body of "for result := range results" for one result
RecResult ==
    /\ pc = "recpool"
    /\ \E i \in scanPool.left, o \in Outcomes :
        LET result == ScanResult(scanPool.items[i], o)
        IN  /\ scanPool' = [scanPool EXCEPT !.left = @ \ {i}]
            /\ rec' = IF o.kind = "found" /\ looksLikeDirectory(result)
                      THEN [rec EXCEPT !.nextDirs = Append(@, result.Path)]
                      ELSE rec
            /\ Len(rec'.nextDirs) <= MaxDirs
            /\ recLog' = IF o.kind = "found" /\ looksLikeDirectory(result)
                         THEN [recLog EXCEPT !.accepted =
                                  @ \cup {[call |-> rec.after, depth |-> rec.depth,
                                           path |-> result.Path]}]
                         ELSE recLog
    /\ UNCHANGED <<opts, pc, scannedSet, discoveredDirs, crawledPaths, crawl, submitted>>

\* runRecursive: the stream of this dir is closed, on to the next dir
RecPoolClosed ==
    /\ pc = "recpool"
    /\ scanPool.left = {}
    /\ rec' = [rec EXCEPT !.idx = @ + 1]
    /\ pc' = "rec"
    /\ UNCHANGED <<opts, scanPool, scannedSet, discoveredDirs, crawledPaths,
                   crawl, submitted, recLog>>

\* runRecursive: all dirs of the level are done; recurse on nextDirs or return
RecLevelDone ==
    /\ pc = "rec"
    /\ rec.depth <= opts.MaxDepth
    /\ rec.idx > Len(rec.dirs)
    /\ IF Len(rec.nextDirs) > 0
       THEN /\ rec' = [rec EXCEPT !.dirs = rec.nextDirs, !.idx = 1,
                                  !.depth = @ + 1, !.nextDirs = <<>>]
            /\ UNCHANGED pc
       ELSE /\ pc' = rec.after
            /\ UNCHANGED rec
    /\ UNCHANGED <<opts, scanPool, scannedSet, discoveredDirs, crawledPaths,
                   crawl, submitted, recLog>>

\* runSingleTarget step 12: call runCrawlPasses or finish
CrawlDispatch ==
    /\ pc = "crawl0"
    /\ IF opts.Crawl /\ Len(crawledPaths) > 0
       THEN /\ crawl' = [newPaths |-> crawledPaths, depth |-> 1,
                         nextPaths |-> <<>>, crawlDirs |-> <<>>]
            /\ pc' = "crawl"
       ELSE /\ pc' = "done"
            /\ UNCHANGED crawl
    /\ UNCHANGED <<opts, scanPool, scannedSet, discoveredDirs, crawledPaths,
                   rec, submitted, recLog>>

\* runCrawlPasses returned to runSingleTarget: recurse into crawlDirs or finish
AfterCrawl ==
    IF opts.Recursive /\ ~opts.VHost /\ Len(crawl.crawlDirs) > 0
    THEN /\ rec' = [dirs |-> crawl.crawlDirs, idx |-> 1, depth |-> 1,
                    nextDirs |-> <<>>, after |-> "done"]
         /\ pc' = "rec"
    ELSE /\ pc' = "done"
         /\ UNCHANGED rec

\* runCrawlPasses: depth > opts.CrawlDepth or no new path, return
CrawlReturn ==
    /\ pc = "crawl"
    /\ crawl.depth > opts.CrawlDepth \/ Len(crawl.newPaths) = 0
    /\ AfterCrawl
    /\ UNCHANGED <<opts, scanPool, scannedSet, discoveredDirs, crawledPaths,
                   crawl, submitted, recLog>>

\* runCrawlPasses: one pass up to RunWorkerPool
CrawlStartPass ==
    /\ pc = "crawl"
    /\ ~(crawl.depth > opts.CrawlDepth \/ Len(crawl.newPaths) = 0)
    /\ RunPool(expandItems(crawl.newPaths, opts.methods))
    /\ recLog' = [recLog EXCEPT
           !.passes = @ + 1,
           !.crawled = @ \cup SeqSet(crawl.newPaths),
           !.crawledTwice = @ \cup (SeqSet(crawl.newPaths) \cap recLog.crawled)
                              \cup Repeated(crawl.newPaths)]
    /\ pc' = "crawlpool"
    /\ UNCHANGED <<opts, scannedSet, discoveredDirs, crawledPaths, rec, crawl>>

\* runCrawlPasses: the body of "for result := range results" for one result
CrawlResult ==
    /\ pc = "crawlpool"
    /\ \E i \in scanPool.left, o \in Outcomes :
        LET next == IF o.kind = "found"
                    THEN AddNew(crawl.nextPaths, scannedSet, o.links)
                    ELSE [list |-> crawl.nextPaths, seen |-> scannedSet]
            inferred == IF o.kind = "found" /\ opts.Recursive /\ ~opts.VHost
                        THEN AddNewDirs(crawl.crawlDirs, next.seen,
                                        ParentDirsOf(o.links, opts.MaxDepth))
                        ELSE [list |-> crawl.crawlDirs, seen |-> next.seen]
        IN  /\ scanPool' = [scanPool EXCEPT !.left = @ \ {i}]
            /\ crawl' = [crawl EXCEPT !.nextPaths = next.list,
                                      !.crawlDirs = inferred.list]
            /\ Len(crawl'.crawlDirs) <= MaxDirs
            /\ scannedSet' = inferred.seen
            /\ recLog' = IF o.kind = "found" /\ opts.Recursive
                         THEN [recLog EXCEPT !.outside =
                                  @ \cup DirsBehind(ScanResult(scanPool.items[i], o), o.links)]
                         ELSE recLog
    /\ UNCHANGED <<opts, pc, discoveredDirs, crawledPaths, rec, submitted>>

\* runCrawlPasses: the stream of the pass is closed; next pass or return
CrawlPassDone ==
    /\ pc = "crawlpool"
    /\ scanPool.left = {}
    /\ IF Len(crawl.nextPaths) > 0
       THEN /\ crawl' = [crawl EXCEPT !.newPaths = crawl.nextPaths,
                                      !.depth = @ + 1, !.nextPaths = <<>>]
            /\ pc' = "crawl"
            /\ UNCHANGED rec
       ELSE /\ AfterCrawl
            /\ UNCHANGED crawl
    /\ UNCHANGED <<opts, scanPool, scannedSet, discoveredDirs, crawledPaths, submitted, recLog>>

(***************************************************************************)
(* Specifications                                                          *)
(***************************************************************************)
(***************************************************************************)
(* Resume store (internal/resume) and its use by runSingleTarget           *)
(***************************************************************************)
\* bound on the length of the loaded wordlist
MaxPaths == 3
\* bound on the length of completed_paths in a resume file found at start
MaxCompleted == 2

ResumePaths == {<<"admin">>, <<"login">>, <<"a.js">>}
ResumeURLs == {"http://a", "http://b"}
ResumeMethods == {<<"GET">>, <<"GET", "POST">>}

\* sequences over S of length at most n without a repeated element
NoDupSeqs(S, n) ==
    {q \in UNION {[1..k -> S] : k \in 0..n} :
        \A i, j \in DOMAIN q : i # j => q[i] # q[j]}

NoFile == [exists |-> FALSE, url |-> "", completed |-> <<>>]
NilState == [nil |-> TRUE, URL |-> "", CompletedPaths |-> <<>>, done |-> {}]

\* resume.New(path, url, totalPaths)
New(url) == [nil |-> FALSE, URL |-> url, CompletedPaths |-> <<>>, done |-> {}]

\* resume.Load(path): nil if the file does not exist
Load(f) ==
    IF ~f.exists THEN NilState
    ELSE [nil |-> FALSE, URL |-> f.url, CompletedPaths |-> f.completed,
          done |-> SeqSet(f.completed)]

\* MarkCompleted that appends without looking at done
MarkCompleted_alwaysAppend(s, path) ==
    [s EXCEPT !.done = @ \cup {path}, !.CompletedPaths = Append(@, path)]

MarkCompleted(s, path) ==
    IF path \notin s.done
    THEN [s EXCEPT !.done = @ \cup {path}, !.CompletedPaths = Append(@, path)]
    ELSE s

\* Save: json.Marshal(s) written to s.path
Save(s) == [exists |-> TRUE, url |-> s.URL, completed |-> s.CompletedPaths]

\* FilterRemaining that stops at the first completed path
RECURSIVE FilterRemaining_stopAtCompleted(_, _)
FilterRemaining_stopAtCompleted(s, paths) ==
    IF paths = <<>> \/ Head(paths) \in s.done THEN <<>>
    ELSE <<Head(paths)>> \o FilterRemaining_stopAtCompleted(s, Tail(paths))

RECURSIVE FilterRemaining(_, _)
FilterRemaining(s, paths) ==
    IF paths = <<>> THEN <<>>
    ELSE (IF Head(paths) \notin s.done THEN <<Head(paths)>> ELSE <<>>)
         \o FilterRemaining(s, Tail(paths))

\* files a previous run can have left: none, or a state saved for some target
ResumeFiles ==
    {NoFile} \cup {[exists |-> TRUE, url |-> u, completed |-> c] :
                      u \in ResumeURLs, c \in NoDupSeqs(ResumePaths, MaxCompleted)}

ResumeInit ==
    /\ file \in ResumeFiles
    /\ resumeState = NilState
    /\ \E u \in ResumeURLs, w \in NoDupSeqs(ResumePaths, MaxPaths) \ {<<>>},
          m \in ResumeMethods, r \in BOOLEAN :
          resume = [pc |-> "load", url |-> u, paths |-> w, methods |-> m, recursing |-> r,
                found |-> file, loaded |-> NilState, remaining |-> <<>>, todo |-> {},
                marked |-> {}, interrupted |-> FALSE, sigSaved |-> FALSE]

\* step 5: load or create the state, filter the wordlist; steps 6 to 9: hand
\* the items to the pool (or return when nothing is left)
ResumeLoad ==
    /\ resume.pc = "load"
    /\ LET existing == Load(file)
           matches == ~existing.nil /\ existing.URL = resume.url
           st == IF matches THEN existing ELSE New(resume.url)
           paths == IF matches THEN FilterRemaining(existing, resume.paths) ELSE resume.paths
       IN  /\ resumeState' = st
           /\ resume' = [resume EXCEPT !.pc = IF paths = <<>> THEN "returned" ELSE "scan",
                               !.loaded = st, !.remaining = paths,
                               !.todo = SeqSet(expandItems(paths, resume.methods))]
    /\ UNCHANGED file

\* result loop: one result, of any item still in flight, is consumed
ResumeResult ==
    /\ resume.pc = "scan"
    /\ \E item \in resume.todo :
           /\ resumeState' = MarkCompleted(resumeState, item.Path)
           /\ resume' = [resume EXCEPT !.todo = @ \ {item}, !.marked = @ \cup {item.Path}]
    /\ UNCHANGED file

\* SIGINT or SIGTERM while items are pending: the context is cancelled
\* (cmd/root.go) and the signal is delivered to sigCh
ResumeInterrupt ==
    /\ resume.pc = "scan"
    /\ resume.todo # {}
    /\ ~resume.interrupted
    /\ resume' = [resume EXCEPT !.interrupted = TRUE]
    /\ UNCHANGED <<file, resumeState>>

\* the goroutine of step 5: <-sigCh, resumeState.Save()
ResumeSigSave ==
    /\ resume.interrupted
    /\ ~resume.sigSaved
    /\ resume.pc # "returned"
    /\ file' = Save(resumeState)
    /\ resume' = [resume EXCEPT !.sigSaved = TRUE]
    /\ UNCHANGED resumeState

\* the stream is closed (all results consumed, or the workers left after the
\* cancellation); step 10 saves the state
ResumeStreamClosed ==
    /\ resume.pc = "scan"
    /\ resume.todo = {} \/ resume.interrupted
    /\ file' = Save(resumeState)
    /\ resume' = [resume EXCEPT !.pc = "saved", !.todo = {}]
    /\ UNCHANGED resumeState

\* step 11 with directories to recurse into: runRecursive returns ctx.Err()
\* when the context is cancelled, and runSingleTarget returns that error
ResumeRecurse ==
    /\ resume.pc = "saved"
    /\ resume.recursing
    /\ resume.interrupted
    /\ resume' = [resume EXCEPT !.pc = "returned"]
    /\ UNCHANGED <<file, resumeState>>

\* steps 11 to 14 with nothing to recurse into or to crawl (or all of it done):
\* resumeState.Remove(), WriteFooter, return
ResumeRemove ==
    /\ resume.pc = "saved"
    /\ ~(resume.recursing /\ resume.interrupted)
    /\ file' = NoFile
    /\ resume' = [resume EXCEPT !.pc = "returned"]
    /\ UNCHANGED resumeState

(***************************************************************************)
(* Work expansion (runSingleTarget step 9)                                 *)
(***************************************************************************)
\* bound on the number of lines of a wordlist file
MaxLines == 3
\* bound on the number of --methods values
MaxMethods == 2

WordlistLines == {<<"admin">>, <<"login">>}
MethodFlags == {"GET", "get", "POST"}

\* strings.ToUpper on the method names that are exercised
ToUpper(m) == IF m = "get" THEN "GET" ELSE m

\* wordlist.Load / wordlist.LoadSimple: the lines in order, each entry once
RECURSIVE LoadLines(_, _)
LoadLines(lines, seen) ==
    IF lines = <<>> THEN <<>>
    ELSE IF Head(lines) \in seen THEN LoadLines(Tail(lines), seen)
    ELSE <<Head(lines)>> \o LoadLines(Tail(lines), seen \cup {Head(lines)})

resolveMethods(Methods) ==
    IF Len(Methods) > 0 THEN [i \in 1..Len(Methods) |-> ToUpper(Methods[i])]
    ELSE <<"GET">>

\* the vhost loop of step 9: one item {m, "/", host} per hostname and method
RECURSIVE vhostItems(_, _)
vhostItems(hostnames, methods) ==
    IF hostnames = <<>> THEN <<>>
    ELSE [m \in 1..Len(methods) |-> WorkItem(methods[m], <<"">>, Head(hostnames))]
         \o vhostItems(Tail(hostnames), methods)

ExpandInit ==
    \E l \in UNION {[1..k -> WordlistLines] : k \in 0..MaxLines},
       m \in UNION {[1..k -> MethodFlags] : k \in 0..MaxMethods},
       v \in BOOLEAN :
        expand = [pc |-> "start", lines |-> l, Methods |-> m, VHost |-> v,
                  paths |-> <<>>, methods |-> <<>>, items |-> <<>>]

\* steps 1 and 9: load the wordlist (paths, or hostnames in vhost mode),
\* resolve the methods, build the items
BuildItems ==
    /\ expand.pc = "start"
    /\ LET paths == LoadLines(expand.lines, {})
           methods == resolveMethods(expand.Methods)
       IN  expand' = [expand EXCEPT
                         !.pc = "built", !.paths = paths, !.methods = methods,
                         !.items = IF expand.VHost THEN vhostItems(paths, methods)
                                   ELSE expandItems(paths, methods)]

ExpandIdle ==
    expand = [pc |-> "built", lines |-> <<>>, Methods |-> <<>>, VHost |-> FALSE,
              paths |-> <<>>, methods |-> <<>>, items |-> <<>>]

(***************************************************************************)
(* ETA abort (runSingleTarget step 9, result loop) and Run's target loop   *)
(***************************************************************************)
\* etaCheckAfter: at least 100 results, or 5% of the items if that is more
EtaMinCompleted == 100
EtaFraction == 20

\* bound on the number of targets of a run
MaxTargets == 2
\* bound on the number of results still delivered after workerCancel()
MaxStragglers == 3

\* len(items) of a target
ItemTotals == {0, 99, 100, 101, 2100}
\* opts.MaxETA (0: no limit) and values of progress.ETA(), ms
MaxETAs == {0, 1000}
EtaValues == {0, 1000, 60000}

etaCheckAfter_fivePercent(total) == total \div EtaFraction

etaCheckAfter(total) ==
    IF total \div EtaFraction > EtaMinCompleted THEN total \div EtaFraction
    ELSE EtaMinCompleted

NoTarget ==
    [total |-> 0, left |-> 0, completed |-> 0, processed |-> 0, discarded |-> 0,
     etaSkipped |-> FALSE, cancelled |-> FALSE, abortAt |-> 0,
     checked |-> FALSE, lastEta |-> 0, startedRec |-> FALSE, startedCrawl |-> FALSE]

EtaInit ==
    \E n \in 1..MaxTargets, m \in MaxETAs :
        etaScan = [pc |-> "run", targets |-> n, target |-> 0, MaxETA |-> m,
                   skipped |-> 0, t |-> NoTarget]

\* Run: the next target; runSingleTarget up to the start of the worker pool
EtaStartTarget ==
    /\ etaScan.pc = "run"
    /\ etaScan.target < etaScan.targets
    /\ \E total \in ItemTotals :
           etaScan' = [etaScan EXCEPT !.pc = "loop", !.target = @ + 1,
                          !.t = [NoTarget EXCEPT !.total = total, !.left = total]]

\* one iteration of `for result := range results`: progress.Increment(), the
\* ETA check, and either the abort or the processing of the result
EtaResult ==
    /\ etaScan.pc = "loop"
    /\ etaScan.t.left > 0
    /\ LET completed == etaScan.t.completed + 1
           checks == etaScan.MaxETA > 0 /\ ~etaScan.t.etaSkipped
                     /\ completed >= etaCheckAfter(etaScan.t.total)
       IN  IF checks
           THEN \E eta \in EtaValues :
                   IF eta > etaScan.MaxETA
                   THEN \E stragglers \in 0..MaxStragglers :
                           /\ stragglers <= etaScan.t.left - 1
                           /\ etaScan' = [etaScan EXCEPT
                                  !.pc = "drain", !.skipped = @ + 1,
                                  !.t = [@ EXCEPT !.completed = completed,
                                            !.left = stragglers,
                                            !.checked = TRUE, !.lastEta = eta,
                                            !.cancelled = TRUE, !.etaSkipped = TRUE,
                                            !.abortAt = completed]]
                   ELSE etaScan' = [etaScan EXCEPT
                            !.t = [@ EXCEPT !.completed = completed, !.left = @ - 1,
                                      !.checked = TRUE, !.lastEta = eta,
                                      !.processed = @ + 1]]
           ELSE etaScan' = [etaScan EXCEPT
                    !.t = [@ EXCEPT !.completed = completed, !.left = @ - 1,
                              !.checked = FALSE, !.processed = @ + 1]]

\* the stream is closed without an abort
EtaLoopEnd ==
    /\ etaScan.pc = "loop"
    /\ etaScan.t.left = 0
    /\ etaScan' = [etaScan EXCEPT !.pc = "after"]

\* `for range results {}`: a straggler is read and dropped
EtaDrain ==
    /\ etaScan.pc = "drain"
    /\ etaScan.t.left > 0
    /\ etaScan' = [etaScan EXCEPT !.t = [@ EXCEPT !.left = @ - 1, !.discarded = @ + 1]]

\* the stream is closed after the abort: progress.Stop(), WriteFooter, return
EtaDrained ==
    /\ etaScan.pc = "drain"
    /\ etaScan.t.left = 0
    /\ etaScan' = [etaScan EXCEPT !.pc = "run"]

\* steps 10 to 14 after a loop that ran to the end: recursion and crawl passes
\* when there is something to recurse into or to crawl, then return
EtaAfterLoop ==
    /\ etaScan.pc = "after"
    /\ \E r, c \in BOOLEAN :
           etaScan' = [etaScan EXCEPT !.pc = "run",
                          !.t = [@ EXCEPT !.startedRec = r, !.startedCrawl = c]]

\* Run: the last target returned
EtaRunDone ==
    /\ etaScan.pc = "run"
    /\ etaScan.target = etaScan.targets
    /\ etaScan' = [etaScan EXCEPT !.pc = "finished"]

EtaIdle ==
    etaScan = [pc |-> "finished", targets |-> 0, target |-> 0, MaxETA |-> 0,
               skipped |-> 0, t |-> NoTarget]

(***************************************************************************)
(* Filter chain (internal/filter/filter.go)                                *)
(***************************************************************************)
\* bound on the number of filters added to a chain
MaxChain == 3
\* bound on the number of Apply calls on one chain
MaxApplyCalls == 3

\* results handed to Apply: the fingerprint the duplicate filter reads, the
\* length the size filter reads, and whether the body holds the needle of the
\* body-exclude filter
ChainResults ==
    [statusCode : {200}, bodyHash : {"h1", "h2"}, lineCount : {10}, wordCount : {20},
     ContentLength : {0, 80}, hasNeedle : BOOLEAN]

\* NewSizeFilter([]int{0}), NewBodyExcludeFilter(needle), NewDuplicateFilter(1)
ChainFilters ==
    {[kind |-> "size", sizes |-> {0}, d |-> NewDuplicateFilter(1)],
     [kind |-> "body-exclude", sizes |-> {}, d |-> NewDuplicateFilter(1)],
     [kind |-> "duplicate", sizes |-> {}, d |-> NewDuplicateFilter(1)]}

\* no chain of a scan is built
NoScopes == [at |-> "none"]

\* f.Name()
Name(f) == f.kind

\* f.ShouldFilter(result): the verdict
ShouldFilterOf(f, result) ==
    IF f.kind = "size" THEN result.ContentLength \in f.sizes
    ELSE IF f.kind = "body-exclude" THEN result.hasNeedle
    ELSE IF f.kind = "body-match" THEN ~result.hasMatch
    ELSE IF f.kind = "status"
    THEN IF f.include # {} THEN result.StatusCode \notin f.include
         ELSE IF f.exclude # {} THEN result.StatusCode \in f.exclude
         ELSE FALSE
    ELSE IF f.kind = "smart-404"
    THEN SmartShouldFilter(f.sf, Fingerprint(result.StatusCode, result.ContentLength,
                                             result.BodyHash, result.WordCount,
                                             result.LineCount))
    ELSE DupShouldFilter(f.d, result)

\* f.ShouldFilter(result): the filter afterwards (only the duplicate filter
\* has state)
Consulted(f, result) ==
    IF f.kind = "duplicate" THEN [f EXCEPT !.d = DupCount(f.d, result)] ELSE f

\* Apply that consults every filter and reports the first that rejected
RECURSIVE ApplyLoop_consultsAll(_, _, _)
ApplyLoop_consultsAll(filters, i, result) ==
    IF i > Len(filters)
    THEN [filtered |-> FALSE, reason |-> "", filters |-> filters]
    ELSE LET rest == ApplyLoop_consultsAll(
                         [filters EXCEPT ![i] = Consulted(filters[i], result)], i + 1, result)
         IN  IF ShouldFilterOf(filters[i], result)
             THEN [filtered |-> TRUE, reason |-> Name(filters[i]), filters |-> rest.filters]
             ELSE rest

\* the loop of Apply from filter i on
RECURSIVE ApplyLoop(_, _, _)
ApplyLoop(filters, i, result) ==
    IF i > Len(filters)
    THEN [filtered |-> FALSE, reason |-> "", filters |-> filters]
    ELSE LET after == [filters EXCEPT ![i] = Consulted(filters[i], result)]
         IN  IF ShouldFilterOf(filters[i], result)
             THEN [filtered |-> TRUE, reason |-> Name(filters[i]), filters |-> after]
             ELSE ApplyLoop(after, i + 1, result)

\* NewChain()
ChainInit ==
    /\ chain = <<>>
    /\ chainLast = [called |-> FALSE, calls |-> 0]
    /\ scopes = NoScopes

\* c.Add(f), while the chain is being built
ChainAdd ==
    /\ ~chainLast.called
    /\ Len(chain) < MaxChain
    /\ \E f \in ChainFilters : chain' = Append(chain, f)
    /\ UNCHANGED <<chainLast, scopes>>

\* c.Apply(result)
ChainApply ==
    /\ chainLast.calls < MaxApplyCalls
    /\ \E result \in ChainResults :
           LET out == ApplyLoop(chain, 1, result)
           IN  /\ chain' = out.filters
               /\ chainLast' = [called |-> TRUE, calls |-> chainLast.calls + 1,
                                result |-> result, before |-> chain,
                                filtered |-> out.filtered, reason |-> out.reason]
               /\ UNCHANGED scopes

ChainIdle == chain = <<>> /\ chainLast = [called |-> FALSE, calls |-> 0] /\ scopes = NoScopes

(***************************************************************************)
(* Link extraction (internal/crawl/crawl.go)                               *)
(*                                                                         *)
(* A reference (the text captured from href=, src= or action=) is a        *)
(* sequence of lexemes; "/", "a", " " and "#" are single characters, so a  *)
(* path is the sequence of its characters.                                 *)
(***************************************************************************)
\* bound on the number of lexemes of a reference
MaxTokens == 4

SchemeTokens == {"javascript:", "MAILTO:", "data:", "https:"}
AuthorityTokens == {"//other.com", "//example.com"}
LinkTokens == {" ", "#", "/", "a"} \cup SchemeTokens \cup AuthorityTokens

\* strings.ToLower on a lexeme
ToLowerTok(t) == IF t = "MAILTO:" THEN "mailto:" ELSE t

\* the host named by an authority lexeme
HostOfToken(t) == IF t = "//other.com" THEN "other.com" ELSE "example.com"

\* the references whose lexemes read back as they were written:
\* spaces, scheme, authority, path characters, "#" fragment, spaces
RECURSIVE Accepts(_, _)
Accepts(q, st) ==
    IF q = <<>> THEN TRUE
    ELSE LET t == Head(q)
             next ==
                 IF t = " " THEN (IF st = "start" THEN "start" ELSE "end")
                 ELSE IF st = "end" THEN "reject"
                 ELSE IF st = "fragment" THEN (IF t = "a" THEN "fragment" ELSE "reject")
                 ELSE IF t = "#" THEN "fragment"
                 ELSE IF t \in SchemeTokens THEN (IF st = "start" THEN "scheme" ELSE "reject")
                 ELSE IF t \in AuthorityTokens
                      THEN (IF st \in {"start", "scheme"} THEN "authority" ELSE "reject")
                 ELSE IF t = "/" THEN (IF st = "slash" THEN "reject" ELSE "slash")
                 ELSE IF st = "authority" THEN "reject"
                 ELSE "segment"
         IN  next # "reject" /\ Accepts(Tail(q), next)

References ==
    {q \in UNION {[1..k -> LinkTokens] : k \in 1..MaxTokens} : Accepts(q, "start")}

\* a reference found in every modelled body next to the one under test
KnownReference == <<"/", "a">>

\* the matches of a body in the order ExtractPaths visits them
LinkBodies ==
    {<<r>> : r \in References}
    \cup {<<KnownReference, r>> : r \in References}
    \cup {<<r, KnownReference>> : r \in References}

\* url.Parse of http://example.com and of http://example.com/a/
BaseURLs ==
    {[Scheme |-> "http", Host |-> "example.com", Path |-> <<>>],
     [Scheme |-> "http", Host |-> "example.com", Path |-> <<"/", "a", "/">>]}

RECURSIVE TrimLeftTok(_, _)
TrimLeftTok(q, t) == IF q # <<>> /\ Head(q) = t THEN TrimLeftTok(Tail(q), t) ELSE q

RECURSIVE TrimRightTok(_, _)
TrimRightTok(q, t) ==
    IF q # <<>> /\ q[Len(q)] = t THEN TrimRightTok(SubSeq(q, 1, Len(q) - 1), t) ELSE q

\* strings.TrimSpace
TrimSpace(q) == TrimRightTok(TrimLeftTok(q, " "), " ")

\* the checks of ExtractPaths before url.Parse
SkippedPrefix(raw) ==
    /\ raw # <<>>
    /\ \/ ToLowerTok(Head(raw)) \in {"javascript:", "mailto:", "data:"}
       \/ Head(raw) = "#"

\* index of the first t in q, Len(q) + 1 if there is none
IndexOf(q, t) ==
    IF \E i \in DOMAIN q : q[i] = t
    THEN CHOOSE i \in DOMAIN q : q[i] = t /\ \A j \in 1..(i - 1) : q[j] # t
    ELSE Len(q) + 1

\* url.Parse: fragment cut off, scheme, opaque rest or authority and path
ParseRef(raw) ==
    LET rest0 == SubSeq(raw, 1, IndexOf(raw, "#") - 1)
        hasScheme == rest0 # <<>> /\ Head(rest0) \in SchemeTokens
        rest1 == IF hasScheme THEN Tail(rest0) ELSE rest0
        rooted == rest1 # <<>> /\ Head(rest1) \in ({"/"} \cup AuthorityTokens)
        opaque == hasScheme /\ ~rooted
        hasAuthority == ~opaque /\ rest1 # <<>> /\ Head(rest1) \in AuthorityTokens
    IN  [Scheme |-> IF hasScheme THEN ToLowerTok(Head(rest0)) ELSE "",
         Host |-> IF hasAuthority THEN HostOfToken(Head(rest1)) ELSE "",
         Path |-> IF opaque THEN <<>>
                  ELSE IF hasAuthority THEN Tail(rest1) ELSE rest1]

\* index of the last "/" of q, 0 if there is none
LastSlash(q) ==
    IF \E i \in DOMAIN q : q[i] = "/"
    THEN CHOOSE i \in DOMAIN q : q[i] = "/" /\ \A j \in (i + 1)..Len(q) : q[j] # "/"
    ELSE 0

\* net/url resolvePath, for paths without dot segments
resolvePath(base, ref) ==
    LET full == IF ref = <<>> THEN base
                ELSE IF Head(ref) # "/" THEN SubSeq(base, 1, LastSlash(base)) \o ref
                ELSE ref
    IN  IF full = <<>> THEN <<>>
        ELSE IF Head(full) = "/" THEN full
        ELSE <<"/">> \o full

\* (*URL).ResolveReference
ResolveReference(base, ref) ==
    IF ref.Scheme # "" \/ ref.Host # ""
    THEN [Scheme |-> IF ref.Scheme = "" THEN base.Scheme ELSE ref.Scheme,
          Host |-> ref.Host,
          Path |-> resolvePath(ref.Path, <<>>)]
    ELSE [Scheme |-> base.Scheme, Host |-> base.Host,
          Path |-> resolvePath(base.Path, ref.Path)]

\* the resolved URL of a reference
Resolved(m, base) == ResolveReference(base, ParseRef(TrimSpace(m)))

\* the loop body without the same-origin check
PathOf_noOriginCheck(m, base) ==
    LET raw == TrimSpace(m)
        resolved == Resolved(m, base)
        path == TrimRightTok(resolved.Path, "/")
        rel == IF path # <<>> /\ Head(path) = "/" THEN Tail(path) ELSE path
    IN  IF SkippedPrefix(raw) THEN [emit |-> FALSE, path |-> <<>>]
        ELSE IF path = <<>> \/ rel = <<>> THEN [emit |-> FALSE, path |-> <<>>]
        ELSE [emit |-> TRUE, path |-> rel]

\* the loop body of ExtractPaths for one match, up to the de-duplication:
\* whether a path comes out of it, and which
PathOf(m, base) ==
    LET raw == TrimSpace(m)
        resolved == Resolved(m, base)
        path == TrimRightTok(resolved.Path, "/")
        rel == IF path # <<>> /\ Head(path) = "/" THEN Tail(path) ELSE path
    IN  IF SkippedPrefix(raw) THEN [emit |-> FALSE, path |-> <<>>]
        ELSE IF resolved.Host # "" /\ resolved.Host # base.Host
        THEN [emit |-> FALSE, path |-> <<>>]
        ELSE IF path = <<>> \/ rel = <<>> THEN [emit |-> FALSE, path |-> <<>>]
        ELSE [emit |-> TRUE, path |-> rel]

\* ExtractPaths: the paths of the matches in order, each once
RECURSIVE ExtractLoop(_, _, _)
ExtractLoop(matches, base, paths) ==
    IF matches = <<>> THEN paths
    ELSE LET p == PathOf(Head(matches), base)
         IN  ExtractLoop(Tail(matches), base,
                 IF p.emit /\ p.path \notin SeqSet(paths)
                 THEN Append(paths, p.path) ELSE paths)

ExtractPaths(body, base) == ExtractLoop(body, base, <<>>)

LinkInit ==
    \E base \in BaseURLs, body \in LinkBodies :
        link = [pc |-> "call", base |-> base, body |-> body, perMatch |-> <<>>,
                paths |-> <<>>]

\* paths := crawl.ExtractPaths(body, baseURL)
ExtractCall ==
    /\ link.pc = "call"
    /\ link' = [link EXCEPT
                    !.pc = "returned",
                    !.perMatch = [i \in DOMAIN link.body |-> PathOf(link.body[i], link.base)],
                    !.paths = ExtractPaths(link.body, link.base)]

LinkIdle ==
    link = [pc |-> "returned", base |-> [Scheme |-> "", Host |-> "", Path |-> <<>>],
            body |-> <<>>, perMatch |-> <<>>, paths |-> <<>>]

(***************************************************************************)
(* Run, and the result loops of runSingleTarget and runRecursive           *)
(*                                                                         *)
(* The runs exercised here have no crawl pass, no --max-eta and            *)
(* --max-depth 1; those are covered by the sections above.                 *)
(***************************************************************************)
\* bound on the number of targets of one run
MaxRunTargets == 2

\* the loaded wordlist and the method list of these runs
RunPaths == << <<"admin">>, <<"a.js">> >>
RunMethods == <<"GET">>

\* the targets resolveTargets returns
RunTargets == [t \in 1..MaxRunTargets |-> <<"http://target", t>>]

\* opts: --smart-filter, --proxy (a URL url.Parse rejects, or none),
\* --resume-file (none, a file that does not exist yet, a file that does not
\* hold JSON), the output format (text writes through, json keeps the
\* entries until the footer), --on-result, --recursive
RunConfigs ==
    [SmartFilter : BOOLEAN, Proxy : {"", "bad"}, ResumeFile : {"", "new", "corrupt"},
     OutputFormat : {"text", "json"}, OnResultCmd : {"", "cmd"}, Recursive : BOOLEAN]

\* what one request of a scan gets back: a transport error, the catch-all
\* page of the target, a page of its own, a 403
RunResponses ==
    {[Error |-> TRUE, StatusCode |-> 0, ContentLength |-> 0, BodyHash |-> "zero",
      WordCount |-> 0, LineCount |-> 0, redirectsToDir |-> FALSE],
     [Error |-> FALSE, StatusCode |-> 200, ContentLength |-> 100, BodyHash |-> "h1",
      WordCount |-> 10, LineCount |-> 5, redirectsToDir |-> FALSE],
     [Error |-> FALSE, StatusCode |-> 200, ContentLength |-> 500, BodyHash |-> "h7",
      WordCount |-> 60, LineCount |-> 30, redirectsToDir |-> FALSE],
     [Error |-> FALSE, StatusCode |-> 403, ContentLength |-> 50, BodyHash |-> "h8",
      WordCount |-> 5, LineCount |-> 2, redirectsToDir |-> FALSE]}

\* the successful calibration probes of one scope: none, one, two that agree,
\* two whose lengths are further apart than the threshold
RunProbeRuns ==
    {<<>>,
     <<Fingerprint(200, 100, "h1", 10, 5)>>,
     <<Fingerprint(200, 100, "h1", 10, 5), Fingerprint(200, 100, "h1", 10, 5)>>,
     <<Fingerprint(200, 100, "h1", 10, 5), Fingerprint(200, 140, "h3", 14, 7)>>}

\* opts.SmartFilterThreshold: --smart-filter-threshold 10 (the default is 50)
RunThreshold == 10

\* filter.NewStatusFilter(nil, []int{403})
RunStatusFilter == [kind |-> "status", include |-> {}, exclude |-> {403}]

\* the ScanResult the pool emits for an item and the response to it
RunScanResult(item, resp) ==
    [Method |-> item.Method, Path |-> item.Path, Host |-> item.Host,
     Error |-> resp.Error, StatusCode |-> resp.StatusCode,
     ContentLength |-> resp.ContentLength, BodyHash |-> resp.BodyHash,
     WordCount |-> resp.WordCount, LineCount |-> resp.LineCount,
     redirectsToDir |-> resp.redirectsToDir]

\* if sfErr != nil { log } else { chain.Add(sf) }
AddCalibrated(filters, built) ==
    IF built.state = "ready" THEN Append(filters, [kind |-> "smart-404", sf |-> built])
    ELSE filters

\* a per-directory chain that takes over every filter of the root chain
NonSmart_copiesAll(filters) == filters

\* for _, f := range chain.Filters() { if not a *SmartFilter { dirChain.Add(f) } }
RECURSIVE NonSmart(_)
NonSmart(filters) ==
    IF filters = <<>> THEN <<>>
    ELSE IF Head(filters).kind = "smart-404" THEN NonSmart(Tail(filters))
    ELSE <<Head(filters)>> \o NonSmart(Tail(filters))

\* runSingleTarget step 3 and 4: status, size, the calibrated smart filter,
\* body-match, body-exclude, each when configured
RootChain(o, built) ==
    LET status == IF o.IncludeStatus # {} \/ o.ExcludeStatus # {}
                  THEN << [kind |-> "status", include |-> o.IncludeStatus,
                           exclude |-> o.ExcludeStatus] >>
                  ELSE <<>>
        size == IF o.ExcludeSize # {} THEN << [kind |-> "size", sizes |-> o.ExcludeSize] >>
                ELSE <<>>
        static == status \o size
        smart == IF o.SmartFilter THEN AddCalibrated(static, built) ELSE static
        match == IF o.MatchBody # "" THEN << [kind |-> "body-match", needle |-> o.MatchBody] >>
                 ELSE <<>>
        exclude == IF o.ExcludeBody # ""
                   THEN << [kind |-> "body-exclude", needle |-> o.ExcludeBody] >>
                   ELSE <<>>
    IN  smart \o match \o exclude

\* runRecursive: the per-directory chain built from the root chain
DirChain(o, filters, built) ==
    IF o.SmartFilter THEN AddCalibrated(NonSmart(filters), built) ELSE NonSmart(filters)

\* the filter options of the runs: --exclude-status 403 and --smart-filter
RunChainOpts(cfg) ==
    [IncludeStatus |-> {}, ExcludeStatus |-> {403}, ExcludeSize |-> {},
     SmartFilter |-> cfg.SmartFilter, MatchBody |-> "", ExcludeBody |-> ""]

\* a result loop that hands every result without an error to the writer
Passes_skipsChain(filters, result) == ~result.Error

\* the two "continue" of a result loop: the result has no error and
\* chain.Apply does not filter it
Passes(filters, result) ==
    /\ ~result.Error
    /\ ~ApplyLoop(filters, 1, result).filtered

\* what the history of the current target starts from
FreshTargetLog(cancelled) ==
    [calFailed |-> {}, chains |-> {}, consumed |-> {}, sink |-> <<>>, hooked |-> <<>>,
     aborted |-> cancelled, finished |-> FALSE]

\* Run before the loop over the targets
RunInit ==
    /\ \E cfg \in RunConfigs, n \in 1..MaxRunTargets :
          run = [cfg |-> cfg, n |-> n, idx |-> 1, pc |-> "loop", ctxErr |-> FALSE,
                 chain |-> <<>>, dirChain |-> <<>>, resumeState |-> NilState,
                 out |-> <<>>, items |-> <<>>, left |-> {}, dirs |-> <<>>, dirIdx |-> 1]
    /\ runLog = [started |-> <<>>, probed |-> {}, setupErr |-> {}, ret |-> "",
                 target |-> FreshTargetLog(FALSE)]

\* runSingleTarget returned to Run: with an error and a cancelled context Run
\* returns it, otherwise the loop goes on with the next target
TargetReturns(r, l, err) ==
    IF err /\ r.ctxErr
    THEN /\ run' = [r EXCEPT !.pc = "returned"]
         /\ runLog' = [l EXCEPT !.ret = "err"]
    ELSE /\ run' = [r EXCEPT !.pc = "loop", !.idx = @ + 1]
         /\ runLog' = l

\* Run: the loop takes the next target and calls runSingleTarget
RunCall ==
    /\ run.pc = "loop"
    /\ run.idx <= run.n
    /\ run' = [run EXCEPT !.pc = "setup", !.chain = <<>>, !.dirChain = <<>>,
                          !.resumeState = NilState, !.out = <<>>, !.items = <<>>,
                          !.left = {}, !.dirs = <<>>, !.dirIdx = 1]
    /\ runLog' = [runLog EXCEPT !.started = Append(@, run.idx),
                                !.target = FreshTargetLog(run.ctxErr)]

\* Run: no target is left, return nil
RunReturn ==
    /\ run.pc = "loop"
    /\ run.idx > run.n
    /\ run' = [run EXCEPT !.pc = "returned"]
    /\ runLog' = [runLog EXCEPT !.ret = "nil"]

\* runSingleTarget steps 1 to 9: wordlist, requester, chain and calibration,
\* resume state, writer and header, work items handed to the pool
RunSetup ==
    /\ run.pc = "setup"
    /\ \E wordlistOK \in BOOLEAN, probes \in RunProbeRuns, writerOK \in BOOLEAN :
        LET cfg == run.cfg
            requesterOK == cfg.Proxy # "bad"
            calibrates == wordlistOK /\ requesterOK /\ cfg.SmartFilter
            built == buildSmartFilter(probes, <<200>>, RunThreshold)
            filters == RootChain(RunChainOpts(cfg), built)
            resumeOK == cfg.ResumeFile # "corrupt"
            err == ~wordlistOK \/ ~requesterOK \/ ~resumeOK \/ ~writerOK
            rootItems == expandItems(RunPaths, RunMethods)
            step == IF ~wordlistOK THEN "wordlist"
                    ELSE IF ~requesterOK THEN "requester"
                    ELSE IF ~resumeOK THEN "resume"
                    ELSE "writer"
            l == [runLog EXCEPT
                    !.probed = IF calibrates THEN @ \cup {run.idx} ELSE @,
                    !.setupErr = IF err THEN @ \cup {[target |-> run.idx, step |-> step]}
                                 ELSE @,
                    !.target.calFailed =
                        IF calibrates /\ built.state = "none" THEN @ \cup {0} ELSE @,
                    !.target.chains =
                        IF err THEN @ ELSE @ \cup {[scope |-> 0, filters |-> filters]},
                    !.target.aborted = @ \/ err]
        IN  \* a request under a cancelled context fails
            /\ (~calibrates \/ run.ctxErr) => probes = <<>>
            /\ (~wordlistOK \/ ~requesterOK \/ ~resumeOK) => writerOK
            /\ IF err
               THEN TargetReturns(run, l, TRUE)
               ELSE /\ run' = [run EXCEPT
                                 !.pc = "scan", !.chain = filters,
                                 !.resumeState =
                                     IF cfg.ResumeFile = "" THEN NilState
                                     ELSE New(RunTargets[run.idx]),
                                 !.items = rootItems, !.left = DOMAIN rootItems]
                    /\ runLog' = l

\* the body of "for result := range results" of scope sc with its chain, for
\* the result of item i: the run and the history afterwards, and whether
\* WriteResult failed
ConsumeResult(sc, filters, i, resp, writeOK) ==
    LET result == RunScanResult(run.items[i], resp)
        pass == Passes(filters, result)
        wrote == pass /\ writeOK
        buffers == run.cfg.OutputFormat = "json"
        entry == [scope |-> sc, i |-> i]
    IN  [run |-> [run EXCEPT
                    !.left = @ \ {i},
                    !.resumeState = IF @.nil THEN @ ELSE MarkCompleted(@, result.Path),
                    !.out = IF wrote /\ buffers THEN Append(@, entry) ELSE @,
                    !.dirs = IF wrote /\ sc = 0 /\ run.cfg.Recursive
                                /\ looksLikeDirectory(result)
                             THEN Append(@, result.Path) ELSE @],
         log |-> [runLog EXCEPT
                    !.target.consumed = @ \cup {[scope |-> sc, i |-> i, result |-> result]},
                    !.target.sink = IF wrote /\ ~buffers THEN Append(@, entry) ELSE @,
                    !.target.hooked = IF wrote /\ run.cfg.OnResultCmd # ""
                                      THEN Append(@, entry) ELSE @,
                    !.target.aborted = @ \/ (pass /\ ~writeOK)],
         err |-> pass /\ ~writeOK]

\* runSingleTarget: one result of the root scan is consumed
RunResult ==
    /\ run.pc = "scan"
    /\ \E i \in run.left, resp \in RunResponses, writeOK \in BOOLEAN :
        LET c == ConsumeResult(0, run.chain, i, resp, writeOK)
        IN  /\ run.cfg.OutputFormat = "json" => writeOK
            /\ resp.Error => writeOK
            /\ IF c.err THEN TargetReturns(c.run, c.log, TRUE)
               ELSE run' = c.run /\ runLog' = c.log

\* runSingleTarget: the stream of the root scan is closed (every result was
\* consumed, or the workers left after a cancellation); steps 10 and 11
RunStreamClosed ==
    /\ run.pc = "scan"
    /\ run.left = {} \/ run.ctxErr
    /\ run' = [run EXCEPT !.left = {}, !.dirIdx = 1,
                          !.pc = IF run.cfg.Recursive /\ Len(run.dirs) > 0
                                 THEN "rec" ELSE "footer"]
    /\ UNCHANGED runLog

\* runRecursive at depth 1: the loop body for one dir up to RunWorkerPool
RunRecDir ==
    /\ run.pc = "rec"
    /\ run.dirIdx <= Len(run.dirs)
    /\ IF run.ctxErr
       THEN TargetReturns(run, [runLog EXCEPT !.target.aborted = TRUE], TRUE)
       ELSE \E probes \in RunProbeRuns :
            LET dir == run.dirs[run.dirIdx]
                built == buildSmartFilter(probes, <<200>>, RunThreshold)
                dirChain == DirChain(RunChainOpts(run.cfg), run.chain, built)
                newPaths == [k \in DOMAIN RunPaths |-> JoinDir(dir, RunPaths[k])]
                newItems == expandItems(newPaths, RunMethods)
            IN  /\ ~run.cfg.SmartFilter => probes = <<>>
                /\ run' = [run EXCEPT !.pc = "recscan", !.dirChain = dirChain,
                                      !.items = newItems, !.left = DOMAIN newItems]
                /\ runLog' = [runLog EXCEPT
                     !.probed = IF run.cfg.SmartFilter THEN @ \cup {run.idx} ELSE @,
                     !.target.calFailed =
                         IF run.cfg.SmartFilter /\ built.state = "none"
                         THEN @ \cup {run.dirIdx} ELSE @,
                     !.target.chains =
                         @ \cup {[scope |-> run.dirIdx, filters |-> dirChain]}]

\* runRecursive: one result of the scan of the current dir is consumed
RunRecResult ==
    /\ run.pc = "recscan"
    /\ \E i \in run.left, resp \in RunResponses, writeOK \in BOOLEAN :
        LET c == ConsumeResult(run.dirIdx, run.dirChain, i, resp, writeOK)
        IN  /\ run.cfg.OutputFormat = "json" => writeOK
            /\ resp.Error => writeOK
            /\ IF c.err THEN TargetReturns(c.run, c.log, TRUE)
               ELSE run' = c.run /\ runLog' = c.log

\* runRecursive: the stream of the current dir is closed, on to the next dir
RunRecClosed ==
    /\ run.pc = "recscan"
    /\ run.left = {} \/ run.ctxErr
    /\ run' = [run EXCEPT !.left = {}, !.dirIdx = @ + 1, !.pc = "rec"]
    /\ UNCHANGED runLog

\* runRecursive: every dir of the level is done; the call for the next level
\* returns nil because depth 2 > opts.MaxDepth
RunRecDone ==
    /\ run.pc = "rec"
    /\ run.dirIdx > Len(run.dirs)
    /\ run' = [run EXCEPT !.pc = "footer"]
    /\ UNCHANGED runLog

\* runSingleTarget steps 13 and 14: out.WriteFooter(stats), which is where a
\* json writer encodes its entries
RunFooter ==
    /\ run.pc = "footer"
    /\ \E footerOK \in BOOLEAN :
        /\ run.out = <<>> => footerOK
        /\ TargetReturns([run EXCEPT !.out = <<>>],
                         [runLog EXCEPT
                            !.target.sink = IF footerOK THEN @ \o run.out ELSE @,
                            !.target.aborted = @ \/ ~footerOK,
                            !.target.finished = TRUE],
                         ~footerOK)

\* SIGINT or SIGTERM: the context of Run is cancelled (cmd/root.go)
RunCancel ==
    /\ run.pc # "returned"
    /\ ~run.ctxErr
    /\ run' = [run EXCEPT !.ctxErr = TRUE]
    /\ runLog' = [runLog EXCEPT !.target.aborted = TRUE]

(***************************************************************************)
(* The chains of the scopes of one scan, and their calibration requests    *)
(***************************************************************************)
\* strings are sequences of lexemes: the scheme and authority of a URL, "/",
\* a path segment, the random name of a probe
ScopeURL == <<"http://target">>
ScopeDirs == {<<"admin">>}
ProbeName == <<"dirfuzz_probe_x">>

\* --include-status none; --exclude-status, --exclude-size, --smart-filter,
\* --match-body, --exclude-body each set or not
ScopeOptions ==
    [URL : {ScopeURL}, IncludeStatus : {{}}, ExcludeStatus : {{}, {403}},
     ExcludeSize : {{}, {0}}, SmartFilter : BOOLEAN, MatchBody : {"", "x"},
     ExcludeBody : {"", "y"}]

\* results handed to Apply: what the status, size and smart filters read, and
\* whether the body holds the needle of --match-body and of --exclude-body
ScopeResults ==
    [StatusCode : {200, 403}, ContentLength : {0, 100}, BodyHash : {"h1", "h7"},
     WordCount : {10}, LineCount : {5}, hasMatch : BOOLEAN, hasNeedle : BOOLEAN]

\* NewRequester: url.Parse(opts.URL) with the trailing "/" of the path trimmed
BaseURLOf(o) == TrimRightTok(o.URL, "/")

\* NewSmartFilter: the path handed to req.Do for one probe
ProbeOf(basePath, probe) ==
    IF basePath # <<>> THEN TrimRightTok(basePath, "/") \o <<"/">> \o probe ELSE probe

\* Requester.Do: targetURL
TargetURL(baseURL, path) == baseURL \o <<"/">> \o TrimLeftTok(path, "/")

\* the path of the request: what follows the scheme and authority
RequestPath(url) == Tail(url)

\* the path the calibration probes of NewSmartFilter(ctx, req, basePath, ...) ask for
ProbedPath(o, basePath) == RequestPath(TargetURL(BaseURLOf(o), ProbeOf(basePath, ProbeName)))

\* dirURL := opts.URL + "/" + strings.TrimLeft(dir, "/")
DirURL(o, dir) == o.URL \o <<"/">> \o TrimLeftTok(dir, "/")

ScopeInit ==
    /\ chain = <<>>
    /\ chainLast = [called |-> FALSE, calls |-> 0]
    /\ \E o \in ScopeOptions :
           scopes = [at |-> "new", opts |-> o, root |-> <<>>, dirName |-> <<>>,
                     dirChain |-> <<>>, probed |-> {}, applied |-> FALSE,
                     last |-> [filtered |-> FALSE, reason |-> ""]]

\* the chain of the scope the scan is in
ScopeChain == IF scopes.at = "dir" THEN scopes.dirChain ELSE scopes.root

\* runSingleTarget steps 3 and 4
ScopeBuildRoot ==
    /\ scopes.at = "new"
    /\ \E probes \in RunProbeRuns :
           LET o == scopes.opts
               built == buildSmartFilter(probes, <<200>>, RunThreshold)
           IN  /\ ~o.SmartFilter => probes = <<>>
               /\ scopes' = [scopes EXCEPT
                      !.at = "root",
                      !.root = RootChain(o, built),
                      !.probed = IF o.SmartFilter
                                 THEN @ \cup {[at |-> "root", path |-> ProbedPath(o, o.URL)]}
                                 ELSE @]
    /\ UNCHANGED <<chain, chainLast>>

\* runRecursive: the chain of a directory found by the root scan
ScopeRecurse ==
    /\ scopes.at = "root"
    /\ \E dir \in ScopeDirs, probes \in RunProbeRuns :
           LET o == scopes.opts
               built == buildSmartFilter(probes, <<200>>, RunThreshold)
           IN  /\ ~o.SmartFilter => probes = <<>>
               /\ scopes' = [scopes EXCEPT
                      !.at = "dir",
                      !.dirName = dir,
                      !.dirChain = DirChain(o, scopes.root, built),
                      !.probed = IF o.SmartFilter
                                 THEN @ \cup {[at |-> "dir",
                                               path |-> ProbedPath(o, DirURL(o, dir))]}
                                 ELSE @,
                      !.applied = FALSE]
    /\ UNCHANGED <<chain, chainLast>>

\* chain.Apply(&result) in the result loop of the scope
ScopeApply ==
    /\ scopes.at \in {"root", "dir"}
    /\ \E result \in ScopeResults :
           LET out == ApplyLoop(ScopeChain, 1, result)
           IN  scopes' = [scopes EXCEPT
                   !.applied = TRUE,
                   !.last = [result |-> result, filtered |-> out.filtered,
                             reason |-> out.reason]]
    /\ UNCHANGED <<chain, chainLast>>

(***************************************************************************)
(* The counters of the result loops: stats and progress                    *)
(***************************************************************************)
\* bound on the number of results of the recursion scope and of the crawl
\* scope, and on those of a root scan that is too short for the ETA check
MaxScopeItems == 2

\* the scans exercised: short root scans with and without --max-eta, followed
\* by recursion and crawl scopes of any length up to the bound, and one root
\* scan with --max-eta that reaches etaCheckAfter, followed by one result of
\* each scope
TallyScans ==
    [total : 0..MaxScopeItems, maxETA : BOOLEAN,
     recItems : 0..MaxScopeItems, crawlItems : 0..MaxScopeItems]
    \cup [total : {EtaMinCompleted}, maxETA : {TRUE}, recItems : {1}, crawlItems : {1}]

\* runSingleTarget up to the result loop: progress and stats start at zero
TallyInit ==
    \E scan \in TallyScans :
        LET total == scan.total
            maxETA == scan.maxETA
            recItems == scan.recItems
            crawlItems == scan.crawlItems
        IN
        tally = [pc |-> "root", total |-> total, left |-> total, maxETA |-> maxETA,
                 recItems |-> recItems, crawlItems |-> crawlItems,
                 etaSkipped |-> FALSE,
                 completed |-> 0, found |-> 0, filtered |-> 0, errors |-> 0,
                 stats |-> [ErrorCount |-> 0, FilteredCount |-> 0],
                 footer |-> [written |-> FALSE, ErrorCount |-> 0, FilteredCount |-> 0],
                 log |-> [errored |-> 0, filteredOut |-> 0, passed |-> 0]]

\* the stream hands over one result: progress.Increment(), with the record of
\* what the result is
Received(t, isErr, isFiltered) ==
    [t EXCEPT !.left = @ - 1,
              !.completed = @ + 1,
              !.log.errored = IF isErr THEN @ + 1 ELSE @,
              !.log.filteredOut = IF ~isErr /\ isFiltered THEN @ + 1 ELSE @,
              !.log.passed = IF ~isErr /\ ~isFiltered THEN @ + 1 ELSE @]

\* a loop body that does not count the results the chain filters
Counted_filteredUncounted(t, isErr, isFiltered) ==
    IF isErr
    THEN [t EXCEPT !.stats.ErrorCount = @ + 1, !.errors = @ + 1]
    ELSE IF isFiltered THEN t
    ELSE [t EXCEPT !.found = @ + 1]

\* if result.Error != nil { stats.ErrorCount++; progress.IncrementErrors(); continue }
\* if filtered { stats.FilteredCount++; progress.IncrementFiltered(); continue }
\* progress.IncrementFound()
Counted(t, isErr, isFiltered) ==
    IF isErr
    THEN [t EXCEPT !.stats.ErrorCount = @ + 1, !.errors = @ + 1]
    ELSE IF isFiltered
    THEN [t EXCEPT !.stats.FilteredCount = @ + 1, !.filtered = @ + 1]
    ELSE [t EXCEPT !.found = @ + 1]

\* out.WriteResult fails for a result that passed: the loop returns the error
WriteFails(isErr, isFiltered, writeOK) == ~isErr /\ ~isFiltered /\ ~writeOK

\* runSingleTarget: the body of the root loop for one result; the ETA check
\* breaks out of the loop right after progress.Increment()
TallyRootResult ==
    /\ tally.pc = "root"
    /\ tally.left > 0
    /\ \E isErr \in BOOLEAN, isFiltered \in BOOLEAN, writeOK \in BOOLEAN, etaExceeds \in BOOLEAN :
        LET got == Received(tally, isErr, isFiltered)
            break == /\ tally.maxETA /\ ~tally.etaSkipped
                     /\ got.completed >= etaCheckAfter(tally.total)
                     /\ etaExceeds
        IN  /\ (isErr \/ isFiltered) => writeOK
            /\ ~(tally.maxETA /\ got.completed >= etaCheckAfter(tally.total)) => ~etaExceeds
            /\ tally' = IF break
                        THEN [got EXCEPT !.etaSkipped = TRUE, !.pc = "drain"]
                        ELSE IF WriteFails(isErr, isFiltered, writeOK)
                        THEN [Counted(got, isErr, isFiltered) EXCEPT !.pc = "returned"]
                        ELSE Counted(got, isErr, isFiltered)

\* runSingleTarget: the root stream is closed; recursion, crawl passes or the
\* footer come next
TallyRootClosed ==
    /\ tally.pc = "root"
    /\ tally.left = 0
    /\ tally' = [tally EXCEPT
           !.pc = IF tally.recItems > 0 THEN "rec"
                  ELSE IF tally.crawlItems > 0 THEN "crawl" ELSE "footer",
           !.left = IF tally.recItems > 0 THEN tally.recItems ELSE tally.crawlItems]

\* runSingleTarget: etaSkipped, "for range results {}" drains the stream
TallyDrain ==
    /\ tally.pc = "drain"
    /\ tally' = [tally EXCEPT !.left = 0, !.pc = "footer"]

\* runRecursive: the body of the loop for one result
TallyRecResult ==
    /\ tally.pc = "rec"
    /\ tally.left > 0
    /\ \E isErr \in BOOLEAN, isFiltered \in BOOLEAN, writeOK \in BOOLEAN :
        LET got == Received(tally, isErr, isFiltered)
        IN  /\ (isErr \/ isFiltered) => writeOK
            /\ tally' = IF WriteFails(isErr, isFiltered, writeOK)
                        THEN [Counted(got, isErr, isFiltered) EXCEPT !.pc = "returned"]
                        ELSE Counted(got, isErr, isFiltered)

\* runRecursive returned nil
TallyRecClosed ==
    /\ tally.pc = "rec"
    /\ tally.left = 0
    /\ tally' = [tally EXCEPT
           !.pc = IF tally.crawlItems > 0 THEN "crawl" ELSE "footer",
           !.left = tally.crawlItems]

\* runCrawlPasses: the body of the loop for one result
TallyCrawlResult ==
    /\ tally.pc = "crawl"
    /\ tally.left > 0
    /\ \E isErr \in BOOLEAN, isFiltered \in BOOLEAN, writeOK \in BOOLEAN :
        LET got == Received(tally, isErr, isFiltered)
        IN  /\ (isErr \/ isFiltered) => writeOK
            /\ tally' = IF WriteFails(isErr, isFiltered, writeOK)
                        THEN [Counted(got, isErr, isFiltered) EXCEPT !.pc = "returned"]
                        ELSE Counted(got, isErr, isFiltered)

\* runCrawlPasses returned nil
TallyCrawlClosed ==
    /\ tally.pc = "crawl"
    /\ tally.left = 0
    /\ tally' = [tally EXCEPT !.pc = "footer"]

\* runSingleTarget steps 13 and 14: out.WriteFooter(stats)
TallyFooter ==
    /\ tally.pc = "footer"
    /\ tally' = [tally EXCEPT
           !.pc = "returned",
           !.footer = [written |-> TRUE, ErrorCount |-> tally.stats.ErrorCount,
                       FilteredCount |-> tally.stats.FilteredCount]]

TallyIdle ==
    tally = [pc |-> "returned"]

RunIdle ==
    /\ run = [pc |-> "returned"]
    /\ runLog = [ret |-> "nil"]

ResumeIdle ==
    /\ file = NoFile /\ resumeState = NilState
    /\ resume = [pc |-> "returned", url |-> "", paths |-> <<>>, methods |-> <<>>,
             recursing |-> FALSE, found |-> NoFile, loaded |-> NilState,
             remaining |-> <<>>, todo |-> {}, marked |-> {},
             interrupted |-> FALSE, sigSaved |-> FALSE]

PauseIdle == gate = NewPauser /\ waiters = <<>>

ThIdle == throttler = NewThrottler(0, FALSE) /\ healthyRun = 0 /\ errorRun = 0
DupIdle == dup = NewDuplicateFilter(1) /\ dupHist = [r \in DupResults |-> 0] /\ dupLast = NoCall
SfIdle == sf = [state |-> "new"] /\ sfLast = NoCall /\ probeRun = NoProbeRun
PoolIdle ==
    /\ items = <<>> /\ threads = 1 /\ ctxDone = FALSE /\ wg = 0 /\ closer = "waiting"
    /\ pauser = [present |-> FALSE, paused |-> FALSE]
    /\ producer = [next |-> 1, done |-> FALSE]
    /\ itemsCh = [buf |-> <<>>, closed |-> FALSE]
    /\ resultsCh = [buf |-> <<>>, closes |-> 0]
    /\ worker = [w \in {1} |-> Idle]
    /\ consumer = [state |-> "reading", received |-> <<>>]
    /\ poolLog = [dequeued |-> <<>>, requested |-> <<>>, errorsRecorded |-> <<>>,
                  silent |-> {}, sentAfterClose |-> FALSE,
                  heldAtPause |-> [w \in {1} |-> 0], sentPaused |-> [w \in {1} |-> <<>>]]

ScanIdle ==
    /\ opts = [paths |-> <<>>, methods |-> <<>>, Recursive |-> FALSE, Crawl |-> FALSE,
               VHost |-> FALSE, MaxDepth |-> 0, CrawlDepth |-> 0]
    /\ pc = "done" /\ scanPool = [items |-> <<>>, left |-> {}] /\ scannedSet = {}
    /\ discoveredDirs = <<>> /\ crawledPaths = <<>> /\ rec = NoRec /\ crawl = NoCrawl
    /\ submitted = [all |-> {}, twice |-> {}]
    /\ recLog = NoRecLog

ThrottleInit == ThInit /\ DupIdle /\ SfIdle /\ PoolIdle /\ ScanIdle /\ PauseIdle /\ ResumeIdle /\ ExpandIdle /\ EtaIdle /\ ChainIdle /\ LinkIdle /\ RunIdle /\ ConcIdle /\ TallyIdle
ThrottleNext ==
    \/ ThRecordStatus /\ UNCHANGED <<dupVars, sfVars, poolVars, scanVars, pauseVars, resumeVars, expandVars, etaVars, chainVars, linkVars, runVars, concVars, tallyVars>>
    \/ ThRecordError /\ UNCHANGED <<dupVars, sfVars, poolVars, scanVars, pauseVars, resumeVars, expandVars, etaVars, chainVars, linkVars, runVars, concVars, tallyVars>>
ThrottleSpec == ThrottleInit /\ [][ThrottleNext]_vars

DupFilterInit == DupInit /\ ThIdle /\ SfIdle /\ PoolIdle /\ ScanIdle /\ PauseIdle /\ ResumeIdle /\ ExpandIdle /\ EtaIdle /\ ChainIdle /\ LinkIdle /\ RunIdle /\ ConcIdle /\ TallyIdle
DupNext == DupCall /\ UNCHANGED <<thVars, sfVars, poolVars, scanVars, pauseVars, resumeVars, expandVars, etaVars, chainVars, linkVars, runVars, concVars, tallyVars>>
DupSpec == DupFilterInit /\ [][DupNext]_vars

\* a DuplicateFilter fed results whose body hashes differ while their shape repeats
DupShapeNext == DupShapeCall /\ UNCHANGED <<thVars, sfVars, poolVars, scanVars, pauseVars, resumeVars, expandVars, etaVars, chainVars, linkVars, runVars, concVars, tallyVars>>
DupShapeSpec == DupFilterInit /\ [][DupShapeNext]_vars

\* goroutines calling ShouldFilter of one DuplicateFilter at the same time
ConcSpecInit == ConcInit /\ ThIdle /\ DupIdle /\ SfIdle /\ PoolIdle /\ ScanIdle /\ PauseIdle /\ ResumeIdle /\ ExpandIdle /\ EtaIdle /\ ChainIdle /\ LinkIdle /\ RunIdle /\ TallyIdle
ConcFrame == UNCHANGED <<thVars, dupVars, sfVars, poolVars, scanVars, pauseVars, resumeVars, expandVars, etaVars, chainVars, linkVars, runVars, tallyVars>>
ConcNext ==
    \/ \E g \in Callers : ConcLock(g) /\ ConcFrame
    \/ \E g \in Callers : ConcIncExact(g) /\ ConcFrame
    \/ \E g \in Callers : ConcReadExact(g) /\ ConcFrame
    \/ \E g \in Callers : ConcIncFuzzy(g) /\ ConcFrame
    \/ \E g \in Callers : ConcReadFuzzy(g) /\ ConcFrame
    \/ \E g \in Callers : ConcUnlock(g) /\ ConcFrame
    \/ \E g \in Callers : ConcReturn(g) /\ ConcFrame
ConcSpec == ConcSpecInit /\ [][ConcNext]_vars

\* the chains of a scan: the root scope, then a directory recursed into
\* the result loops of one target, scope after scope
TallySpecInit == TallyInit /\ ThIdle /\ DupIdle /\ SfIdle /\ PoolIdle /\ ScanIdle /\ PauseIdle /\ ResumeIdle /\ ExpandIdle /\ EtaIdle /\ ChainIdle /\ LinkIdle /\ RunIdle /\ ConcIdle
TallyFrame == UNCHANGED <<thVars, dupVars, sfVars, poolVars, scanVars, pauseVars, resumeVars, expandVars, etaVars, chainVars, linkVars, runVars, concVars>>
TallyNext ==
    \/ TallyRootResult /\ TallyFrame
    \/ TallyRootClosed /\ TallyFrame
    \/ TallyDrain /\ TallyFrame
    \/ TallyRecResult /\ TallyFrame
    \/ TallyRecClosed /\ TallyFrame
    \/ TallyCrawlResult /\ TallyFrame
    \/ TallyCrawlClosed /\ TallyFrame
    \/ TallyFooter /\ TallyFrame
TallySpec == TallySpecInit /\ [][TallyNext]_vars

ScopeSpecInit == ScopeInit /\ ThIdle /\ DupIdle /\ SfIdle /\ PoolIdle /\ ScanIdle /\ PauseIdle /\ ResumeIdle /\ ExpandIdle /\ EtaIdle /\ LinkIdle /\ RunIdle /\ ConcIdle /\ TallyIdle
ScopeFrame == UNCHANGED <<thVars, dupVars, sfVars, poolVars, scanVars, pauseVars, resumeVars, expandVars, etaVars, linkVars, runVars, concVars, tallyVars>>
ScopeNext ==
    \/ ScopeBuildRoot /\ ScopeFrame
    \/ ScopeRecurse /\ ScopeFrame
    \/ ScopeApply /\ ScopeFrame
ScopeSpec == ScopeSpecInit /\ [][ScopeNext]_vars

SmartInit == SfInit /\ ThIdle /\ DupIdle /\ PoolIdle /\ ScanIdle /\ PauseIdle /\ ResumeIdle /\ ExpandIdle /\ EtaIdle /\ ChainIdle /\ LinkIdle /\ RunIdle /\ ConcIdle /\ TallyIdle
SmartNext ==
    \/ Calibrate /\ UNCHANGED <<thVars, dupVars, poolVars, scanVars, pauseVars, resumeVars, expandVars, etaVars, chainVars, linkVars, runVars, concVars, tallyVars>>
    \/ Classify /\ UNCHANGED <<thVars, dupVars, poolVars, scanVars, pauseVars, resumeVars, expandVars, etaVars, chainVars, linkVars, runVars, concVars, tallyVars>>
SmartSpec == SmartInit /\ [][SmartNext]_vars

\* one calibration on every bounded run of successful probes
CalibrationSpecInit == CalibrationInit /\ ThIdle /\ DupIdle /\ PoolIdle /\ ScanIdle /\ PauseIdle /\ ResumeIdle /\ ExpandIdle /\ EtaIdle /\ ChainIdle /\ LinkIdle /\ RunIdle /\ ConcIdle /\ TallyIdle
CalibrationNext ==
    CalibrateRun /\ UNCHANGED <<thVars, dupVars, poolVars, scanVars, pauseVars, resumeVars, expandVars, etaVars, chainVars, linkVars, runVars, concVars, tallyVars>>
CalibrationSpec == CalibrationSpecInit /\ [][CalibrationNext]_vars

PoolSpecInit == PoolInit /\ DupIdle /\ SfIdle /\ ScanIdle /\ PauseIdle /\ ResumeIdle /\ ExpandIdle /\ EtaIdle /\ ChainIdle /\ LinkIdle /\ RunIdle /\ ConcIdle /\ TallyIdle
PoolFrame == UNCHANGED <<dupVars, sfVars, scanVars, pauseVars, resumeVars, expandVars, etaVars, chainVars, linkVars, runVars, concVars, tallyVars>>
PoolStep ==
    \/ ProducerSend
    \/ ProducerCancelled
    \/ ProducerFinish
    \/ \E w \in Workers : WorkerRecv(w)
    \/ \E w \in Workers : WorkerPause(w)
    \/ \E w \in Workers : WorkerDelay(w)
    \/ \E w \in Workers : WorkerDo(w)
    \/ \E w \in Workers : WorkerSend(w)
    \/ Closer
    \/ ConsumerRecv
    \/ ConsumerClosed
    \/ ConsumerStop
    \/ Cancel
    \/ Toggle
PoolNext == PoolStep /\ PoolFrame
PoolSpec == PoolSpecInit /\ [][PoolNext]_vars

\* the pool as runSingleTarget configures it (no Pauser), with the scheduler's
\* fairness: a goroutine that can take a step eventually takes one.  The
\* reader of the stream and the cancellation get no fairness.
CancelInit == PoolSpecInit /\ ~pauser.present
CancelStep ==
    \/ ProducerSend
    \/ ProducerCancelled
    \/ ProducerFinish
    \/ \E w \in Workers : WorkerRecv(w)
    \/ \E w \in Workers : WorkerPause(w)
    \/ \E w \in Workers : WorkerDelay(w)
    \/ \E w \in Workers : WorkerDo(w)
    \/ \E w \in Workers : WorkerSend(w)
    \/ Closer
    \/ ConsumerRecv
    \/ ConsumerClosed
    \/ ConsumerStop
    \/ Cancel
CancelNext == CancelStep /\ PoolFrame
PoolFairness ==
    /\ WF_vars(ProducerSend /\ PoolFrame)
    /\ WF_vars(ProducerCancelled /\ PoolFrame)
    /\ WF_vars(ProducerFinish /\ PoolFrame)
    /\ \A w \in 1..MaxThreads :
           /\ WF_vars(w \in Workers /\ WorkerRecv(w) /\ PoolFrame)
           /\ WF_vars(w \in Workers /\ WorkerPause(w) /\ PoolFrame)
           /\ WF_vars(w \in Workers /\ WorkerDelay(w) /\ PoolFrame)
           /\ WF_vars(w \in Workers /\ WorkerDo(w) /\ PoolFrame)
           /\ WF_vars(w \in Workers /\ WorkerSend(w) /\ PoolFrame)
    /\ WF_vars(Closer /\ PoolFrame)
PoolCancelSpec == CancelInit /\ [][CancelNext]_vars /\ PoolFairness

\* the pool with a context that is never cancelled and a reader that keeps
\* reading: every goroutine that can take a step eventually takes one, a
\* request returns, the keyboard that toggles the Pauser gets no fairness
LiveStep ==
    \/ ProducerSend
    \/ ProducerFinish
    \/ \E w \in Workers : WorkerRecv(w)
    \/ \E w \in Workers : WorkerPause(w)
    \/ \E w \in Workers : WorkerDelay(w)
    \/ \E w \in Workers : WorkerDo(w)
    \/ \E w \in Workers : WorkerSend(w)
    \/ Closer
    \/ ConsumerRecv
    \/ ConsumerClosed
    \/ Toggle
LiveNext == LiveStep /\ PoolFrame
LiveFairness ==
    /\ PoolFairness
    /\ WF_vars(ConsumerRecv /\ PoolFrame)
    /\ WF_vars(ConsumerClosed /\ PoolFrame)
PoolLiveSpec == PoolSpecInit /\ [][LiveNext]_vars /\ LiveFairness

\* a Pauser with goroutines calling Wait over and over and a keyboard that
\* toggles it; the scheduler runs a woken goroutine eventually, the keyboard
\* gets no fairness
PauseSpecInit == PauseInit /\ ThIdle /\ DupIdle /\ SfIdle /\ PoolIdle /\ ScanIdle /\ ResumeIdle /\ ExpandIdle /\ EtaIdle /\ ChainIdle /\ LinkIdle /\ RunIdle /\ ConcIdle /\ TallyIdle
PauseFrame == UNCHANGED <<thVars, dupVars, sfVars, poolVars, scanVars, resumeVars, expandVars, etaVars, chainVars, linkVars, runVars, concVars, tallyVars>>
PauseNext ==
    \/ \E g \in Waiters : WaitEnter(g) /\ PauseFrame
    \/ \E g \in Waiters : WaitWake(g) /\ PauseFrame
    \/ \E g \in Waiters : WaitReturned(g) /\ PauseFrame
    \/ PauserToggle /\ PauseFrame
PauseFairness ==
    \A g \in 1..MaxWaiters :
        /\ WF_vars(g \in Waiters /\ WaitEnter(g) /\ PauseFrame)
        /\ WF_vars(g \in Waiters /\ WaitWake(g) /\ PauseFrame)
PauseSpec == PauseSpecInit /\ [][PauseNext]_vars /\ PauseFairness

\* one target scanned with --resume-file, SIGINT arriving at any moment of the
\* result loop
ResumeSpecInit ==
    ResumeInit /\ ThIdle /\ DupIdle /\ SfIdle /\ PoolIdle /\ ScanIdle /\ PauseIdle /\ ExpandIdle
    /\ EtaIdle /\ ChainIdle /\ LinkIdle /\ RunIdle /\ ConcIdle /\ TallyIdle
ResumeFrame ==
    UNCHANGED <<thVars, dupVars, sfVars, poolVars, scanVars, pauseVars, expandVars, etaVars, chainVars, linkVars, runVars, concVars, tallyVars>>
ResumeNext ==
    \/ ResumeLoad /\ ResumeFrame
    \/ ResumeResult /\ ResumeFrame
    \/ ResumeInterrupt /\ ResumeFrame
    \/ ResumeSigSave /\ ResumeFrame
    \/ ResumeStreamClosed /\ ResumeFrame
    \/ ResumeRecurse /\ ResumeFrame
    \/ ResumeRemove /\ ResumeFrame
ResumeSpec == ResumeSpecInit /\ [][ResumeNext]_vars

\* step 9 of runSingleTarget applied to every configuration within the bounds
ExpandSpecInit ==
    ExpandInit /\ ThIdle /\ DupIdle /\ SfIdle /\ PoolIdle /\ ScanIdle /\ PauseIdle /\ ResumeIdle
    /\ EtaIdle /\ ChainIdle /\ LinkIdle /\ RunIdle /\ ConcIdle /\ TallyIdle
ExpandNext ==
    BuildItems /\ UNCHANGED <<thVars, dupVars, sfVars, poolVars, scanVars, pauseVars, resumeVars, etaVars, chainVars, linkVars, runVars, concVars, tallyVars>>
ExpandSpec == ExpandSpecInit /\ [][ExpandNext]_vars

\* Run over 1..MaxRunTargets targets, for every configuration within the bounds
RunSpecInit ==
    RunInit /\ ThIdle /\ DupIdle /\ SfIdle /\ PoolIdle /\ ScanIdle /\ PauseIdle /\ ResumeIdle
    /\ ExpandIdle /\ EtaIdle /\ ChainIdle /\ LinkIdle /\ ConcIdle /\ TallyIdle
RunFrame ==
    UNCHANGED <<thVars, dupVars, sfVars, poolVars, scanVars, pauseVars, resumeVars, expandVars,
                etaVars, chainVars, linkVars, concVars, tallyVars>>
RunNext ==
    \/ RunCall /\ RunFrame
    \/ RunReturn /\ RunFrame
    \/ RunSetup /\ RunFrame
    \/ RunResult /\ RunFrame
    \/ RunStreamClosed /\ RunFrame
    \/ RunRecDir /\ RunFrame
    \/ RunRecResult /\ RunFrame
    \/ RunRecClosed /\ RunFrame
    \/ RunRecDone /\ RunFrame
    \/ RunFooter /\ RunFrame
    \/ RunCancel /\ RunFrame
RunSpec == RunSpecInit /\ [][RunNext]_vars

\* a run over 1..MaxTargets targets with or without --max-eta
EtaSpecInit ==
    EtaInit /\ ThIdle /\ DupIdle /\ SfIdle /\ PoolIdle /\ ScanIdle /\ PauseIdle /\ ResumeIdle
    /\ ExpandIdle /\ ChainIdle /\ LinkIdle /\ RunIdle /\ ConcIdle /\ TallyIdle
EtaFrame ==
    UNCHANGED <<thVars, dupVars, sfVars, poolVars, scanVars, pauseVars, resumeVars, expandVars,
                chainVars, linkVars, runVars, concVars, tallyVars>>
EtaNext ==
    \/ EtaStartTarget /\ EtaFrame
    \/ EtaResult /\ EtaFrame
    \/ EtaLoopEnd /\ EtaFrame
    \/ EtaDrain /\ EtaFrame
    \/ EtaDrained /\ EtaFrame
    \/ EtaAfterLoop /\ EtaFrame
    \/ EtaRunDone /\ EtaFrame
EtaSpec == EtaSpecInit /\ [][EtaNext]_vars

\* a chain built with Add and then applied to results
ChainSpecInit ==
    ChainInit /\ ThIdle /\ DupIdle /\ SfIdle /\ PoolIdle /\ ScanIdle /\ PauseIdle /\ ResumeIdle
    /\ ExpandIdle /\ EtaIdle /\ LinkIdle /\ RunIdle /\ ConcIdle /\ TallyIdle
ChainFrame ==
    UNCHANGED <<thVars, dupVars, sfVars, poolVars, scanVars, pauseVars, resumeVars, expandVars,
                etaVars, linkVars, runVars, concVars, tallyVars>>
ChainNext ==
    \/ ChainAdd /\ ChainFrame
    \/ ChainApply /\ ChainFrame
ChainSpec == ChainSpecInit /\ [][ChainNext]_vars

\* crawl.ExtractPaths applied to the bodies within the bounds
LinkSpecInit ==
    LinkInit /\ ThIdle /\ DupIdle /\ SfIdle /\ PoolIdle /\ ScanIdle /\ PauseIdle /\ ResumeIdle
    /\ ExpandIdle /\ EtaIdle /\ ChainIdle /\ RunIdle /\ ConcIdle /\ TallyIdle
LinkNext ==
    ExtractCall
    /\ UNCHANGED <<thVars, dupVars, sfVars, poolVars, scanVars, pauseVars, resumeVars,
                   expandVars, etaVars, chainVars, runVars, concVars, tallyVars>>
LinkSpec == LinkSpecInit /\ [][LinkNext]_vars

ScanSpecInit == ScanInit /\ ThIdle /\ DupIdle /\ SfIdle /\ PoolIdle /\ PauseIdle /\ ResumeIdle /\ ExpandIdle /\ EtaIdle /\ ChainIdle /\ LinkIdle /\ RunIdle /\ ConcIdle /\ TallyIdle
ScanStep ==
    \/ RootResult
    \/ RootDone
    \/ RecTooDeep
    \/ RecStartDir
    \/ RecResult
    \/ RecPoolClosed
    \/ RecLevelDone
    \/ CrawlDispatch
    \/ CrawlReturn
    \/ CrawlStartPass
    \/ CrawlResult
    \/ CrawlPassDone
ScanNext == ScanStep /\ UNCHANGED <<thVars, dupVars, sfVars, poolVars, pauseVars, resumeVars, expandVars, etaVars, chainVars, linkVars, runVars, concVars, tallyVars>>
ScanSpec == ScanSpecInit /\ [][ScanNext]_vars
\* runSingleTarget is one goroutine that keeps running: every pool it reads
\* from closes its stream, and each step that can be taken is taken
ScanLiveSpec == ScanSpec /\ WF_vars(ScanNext)

(***************************************************************************)
(* Properties of the SmartFilter                                           *)
(***************************************************************************)
EmptyOK(result) == result.statusCode = 200 /\ result.contentLength = 0

\* the baselines of the calibrated filter for the status of the last result
BaselinesFor(result, mode) ==
    {b \in {sf.baselines[i] : i \in DOMAIN sf.baselines} :
        b.statusCode = result.statusCode /\ b.mode = mode}

\* C5 (as stated): with an EXACT_HASH baseline for the result's status, the
\* result is filtered when its body hash equals the baseline's and passes
\* when it differs, whatever its content length, word and line counts.
C5_ExactHashDecides ==
    sfLast.called =>
        \A b \in BaselinesFor(sfLast.result, matchHashExact) :
            sfLast.filtered = (sfLast.result.bodyHash = b.bodyHash)

\* C5 (amended): with an EXACT_HASH baseline for the result's status, an equal
\* body hash is filtered, and a different body hash passes unless the result
\* is an empty 200 (status 200, content length 0), which is always filtered.
C5_ExactHashDecidesButEmptyOK ==
    sfLast.called =>
        \A b \in BaselinesFor(sfLast.result, matchHashExact) :
            /\ sfLast.result.bodyHash = b.bodyHash => sfLast.filtered
            /\ (sfLast.result.bodyHash # b.bodyHash /\ ~EmptyOK(sfLast.result))
                   => ~sfLast.filtered
            /\ EmptyOK(sfLast.result) => sfLast.filtered

C5_Witness ==
    /\ sfLast.called
    /\ \E b \in BaselinesFor(sfLast.result, matchHashExact) :
           /\ sfLast.result.bodyHash # b.bodyHash
           /\ sfLast.result.contentLength = 181
           /\ Len(sf.baselines) = 2
    /\ ~sfLast.filtered

\* the claim's count of metrics within tolerance
MetricsWithin(b, result) ==
    LET lengthOK == Abs(result.contentLength - b.contentLength) <= sf.threshold
        wordOK == Abs(result.wordCount - b.wordCount) <= Max(5, b.wordCount \div 20)
        lineOK == Abs(result.lineCount - b.lineCount) <= Max(2, b.lineCount \div 10)
    IN  Cardinality({m \in {"length", "word", "line"} :
            \/ m = "length" /\ lengthOK
            \/ m = "word" /\ wordOK
            \/ m = "line" /\ lineOK})

\* C6 (as stated): with a FUZZY_LENGTH baseline for the result's status, the
\* result is filtered when at least 2 of the 3 metrics are within tolerance
\* and passes when at most 1 is.
C6_TwoOfThree ==
    sfLast.called =>
        \A b \in BaselinesFor(sfLast.result, matchFuzzyLength) :
            sfLast.filtered = (MetricsWithin(b, sfLast.result) >= 2)

\* C6 (amended): with a FUZZY_LENGTH baseline for the result's status, the
\* result is filtered when at least 2 of the 3 metrics are within tolerance,
\* and passes when at most 1 is unless it is an empty 200 (status 200,
\* content length 0), which is always filtered.
C6_TwoOfThreeButEmptyOK ==
    sfLast.called =>
        \A b \in BaselinesFor(sfLast.result, matchFuzzyLength) :
            /\ MetricsWithin(b, sfLast.result) >= 2 => sfLast.filtered
            /\ (MetricsWithin(b, sfLast.result) <= 1 /\ ~EmptyOK(sfLast.result))
                   => ~sfLast.filtered
            /\ EmptyOK(sfLast.result) => sfLast.filtered

C6_Witness ==
    /\ sfLast.called
    /\ \E b \in BaselinesFor(sfLast.result, matchFuzzyLength) :
           /\ MetricsWithin(b, sfLast.result) = 2
           /\ Abs(sfLast.result.wordCount - b.wordCount) > 5
           /\ Abs(sfLast.result.wordCount - b.wordCount) <= b.wordCount \div 20
    /\ sfLast.filtered

(***************************************************************************)
(* Properties of the DuplicateFilter                                       *)
(***************************************************************************)
RECURSIVE BagSum(_, _)
BagSum(bag, S) ==
    IF S = {} THEN 0
    ELSE LET x == CHOOSE y \in S : TRUE IN bag[x] + BagSum(bag, S \ {x})

\* earlier results with the same (statusCode, bodyHash)
SameKeyBefore(call) ==
    BagSum(call.before, {r \in DupResults :
        r.statusCode = call.result.statusCode /\ r.bodyHash = call.result.bodyHash})

\* earlier results with the same (statusCode, lineCount, wordCount / 5)
SameShapeBefore(call) ==
    BagSum(call.before, {r \in DupResults :
        /\ r.statusCode = call.result.statusCode
        /\ r.lineCount = call.result.lineCount
        /\ r.wordCount \div 5 = call.result.wordCount \div 5})

\* C7 (as stated): the first T results with a key pass, the (T+1)-th and
\* later ones are filtered, whatever was seen under other keys.
C7_FirstTPass ==
    dupLast.called =>
        dupLast.filtered = (SameKeyBefore(dupLast) + 1 > dup.threshold)

\* C7 (amended): the (T+1)-th and every later result with a key is filtered;
\* each of the first T results with a key passes as long as no more than
\* max(5, 3T) results of its shape (statusCode, lineCount, wordCount / 5),
\* itself included, were seen; results of another key and another shape do
\* not affect it.
C7_FirstTPassUnlessShapeRepeats ==
    dupLast.called =>
        /\ SameKeyBefore(dupLast) + 1 > dup.threshold => dupLast.filtered
        /\ (/\ SameKeyBefore(dupLast) + 1 <= dup.threshold
            /\ SameShapeBefore(dupLast) + 1 <= Max(5, 3 * dup.threshold))
               => ~dupLast.filtered

C7_Witness ==
    /\ dupLast.called
    /\ dup.threshold = 2
    /\ SameKeyBefore(dupLast) = 2
    /\ SameShapeBefore(dupLast) = 2
    /\ \E r \in DupResults : r.bodyHash # dupLast.result.bodyHash /\ dupLast.before[r] > 0
    /\ dupLast.filtered

\* C8: a result whose (statusCode, bodyHash) key and whose (statusCode,
\* lineCount, wordCount / 5) shape were not seen before is not filtered.
C8_UniqueNeverFiltered ==
    (dupLast.called /\ SameKeyBefore(dupLast) = 0 /\ SameShapeBefore(dupLast) = 0)
        => ~dupLast.filtered

C8_Witness ==
    /\ dupLast.called
    /\ SameKeyBefore(dupLast) = 0
    /\ SameShapeBefore(dupLast) = 0
    /\ DupCalls >= 4
    /\ ~dupLast.filtered

(***************************************************************************)
(* Properties of the Throttler                                             *)
(***************************************************************************)
\* C9: with adaptive throttling enabled, sustained healthy responses bring
\* delay() back to baseDelay: after MaxHealthy healthy responses in a row
\* (more halvings than any delay up to maxDelay needs) the delay is baseDelay.
C9_HealthyConverges ==
    (throttler.enabled /\ healthyRun >= MaxHealthy)
        => Delay(throttler) = throttler.baseDelay

Fresh(t) == t = NewThrottler(t.baseDelay, TRUE)

\* C11: a fresh Throttler with adaptive throttling enabled has, after one
\* RecordStatus(429), a delay() of at least max(500 ms, 2 * baseDelay).
C11_After429 ==
    [][(Fresh(throttler) /\ throttler' = RecordStatus(throttler, 429))
         => Delay(throttler)' >= Max(MinBackoff, 2 * throttler.baseDelay)]_vars

\* C11 (amended): a fresh Throttler with adaptive throttling enabled has, after
\* one RecordStatus(429), a delay() of exactly
\* min(maxDelay, max(500 ms, 2 * baseDelay)): the doubling is capped at 30 s.
C11_After429Capped ==
    [][(Fresh(throttler) /\ throttler' = RecordStatus(throttler, 429))
         => Delay(throttler)' =
                Min(MaxDelayMs, Max(MinBackoff, 2 * throttler.baseDelay))]_vars

\* a throttler one signal away from fresh: base 1 s doubled to 2 s
C11_Witness ==
    /\ throttler.enabled
    /\ throttler.baseDelay = 1000
    /\ throttler.consecutive = 1
    /\ healthyRun = 0
    /\ Delay(throttler) = 2000

(***************************************************************************)
(* Properties of the Pauser                                                *)
(***************************************************************************)
\* C12: every goroutine blocked in Wait when the gate is resumed returns from
\* Wait; none stays blocked, for 1..MaxWaiters waiting goroutines.
C12_AllReleased ==
    \A g \in 1..MaxWaiters :
        (g \in Waiters /\ InWait(g) /\ ~gate.paused)
            ~> (g \in Waiters /\ waiters[g].pc = "returned")

\* C12 (amended): every goroutine blocked in Wait when the gate is resumed
\* returns from Wait unless the gate is paused again before the goroutine has
\* re-checked it (it then waits for the next resume).
C12_AllReleasedUnlessRepaused ==
    \A g \in 1..MaxWaiters :
        (g \in Waiters /\ InWait(g) /\ ~gate.paused)
            ~> (g \in Waiters /\ (waiters[g].pc = "returned" \/ gate.paused))

\* MaxWaiters goroutines blocked in Wait during a pause, and after the resume
\* all of them have returned
C12_Witness ==
    /\ Cardinality(Waiters) = MaxWaiters
    /\ ~gate.paused
    /\ \A g \in Waiters : waiters[g].pc = "returned" /\ waiters[g].blocked

(***************************************************************************)
(* Properties of the resume store                                          *)
(***************************************************************************)
\* the resume file found at start is for the current target
FileMatches == resume.found.exists /\ resume.found.url = resume.url

\* C13: with a resume file whose url is the target, the scan gets exactly the
\* loaded paths that are not in completed_paths, in their order; with another
\* url or no file, the state is fresh (no completed path) and the scan gets the
\* whole wordlist.
C13_ResumeFiltersExactly ==
    resume.pc # "load" =>
        IF FileMatches
        THEN resume.remaining =
                 SelectSeq(resume.paths, LAMBDA p : p \notin SeqSet(resume.found.completed))
        ELSE /\ resume.remaining = resume.paths
             /\ resume.loaded.CompletedPaths = <<>>
             /\ resume.loaded.done = {}

\* a matching file that names the middle path of a three-path wordlist
C13_Witness ==
    /\ resume.pc = "scan"
    /\ FileMatches
    /\ Len(resume.paths) = 3
    /\ resume.found.completed = <<resume.paths[2]>>
    /\ resume.remaining = <<resume.paths[1], resume.paths[3]>>

\* C14: a scan interrupted before every item completed returns with the
\* resume file on disk, holding the current state.
C14_InterruptKeepsFile ==
    (resume.pc = "returned" /\ resume.interrupted)
        => (file.exists /\ file = Save(resumeState))

\* C15: completedPaths never holds a path twice, and holds exactly the paths
\* loaded from the file and those marked since.
C15_NoDuplicateCompleted ==
    ~resumeState.nil =>
        /\ \A i, j \in DOMAIN resumeState.CompletedPaths :
               i # j => resumeState.CompletedPaths[i] # resumeState.CompletedPaths[j]
        /\ SeqSet(resumeState.CompletedPaths) =
               SeqSet(resume.loaded.CompletedPaths) \cup resume.marked
        /\ resumeState.done = SeqSet(resumeState.CompletedPaths)

\* both methods of a path have produced a result: MarkCompleted was called
\* twice with the same path, after another path was marked
C15_Witness ==
    /\ resume.pc = "scan"
    /\ Len(resume.methods) = 2
    /\ Cardinality(resume.marked) = 2
    /\ Cardinality(resume.todo) = 2 * Len(resume.remaining) - 4
    /\ Len(resumeState.CompletedPaths) = 2

(***************************************************************************)
(* Properties of work expansion                                            *)
(***************************************************************************)
\* C16: work expansion yields |paths| x |methods| items, one per (path,
\* method) pair in path mode and one {method, "/", host} per (hostname,
\* method) pair in vhost mode, and no two items share (method, path, host).
C16_ExpansionExact ==
    expand.pc = "built" =>
        /\ Len(expand.items) = Len(expand.paths) * Len(expand.methods)
        /\ \A i \in DOMAIN expand.paths, j \in DOMAIN expand.methods :
               \E k \in DOMAIN expand.items :
                   expand.items[k] =
                       IF expand.VHost
                       THEN WorkItem(expand.methods[j], <<"">>, expand.paths[i])
                       ELSE WorkItem(expand.methods[j], expand.paths[i], "")
        /\ \A k, l \in DOMAIN expand.items :
               k # l => expand.items[k] # expand.items[l]

(***************************************************************************)
(* Properties of the ETA abort                                             *)
(***************************************************************************)
\* C17: the ETA abort is not taken before max(100, totalItems/20) results were
\* consumed; a check at or past that point whose estimate exceeds maxETA
\* aborts: the worker context is cancelled, what is left of the stream is
\* dropped unprocessed, no recursion and no crawl pass is started, and
\* runSingleTarget returns to Run's target loop.
C17_EtaAbort ==
    /\ etaScan.t.etaSkipped =>
           /\ etaScan.t.abortAt >= Max(100, etaScan.t.total \div 20)
           /\ etaScan.t.cancelled
           /\ etaScan.t.processed = etaScan.t.abortAt - 1
           /\ etaScan.t.completed = etaScan.t.abortAt
           /\ ~etaScan.t.startedRec /\ ~etaScan.t.startedCrawl
           /\ etaScan.pc \in {"drain", "run", "finished"}
           /\ etaScan.pc # "drain" => etaScan.t.left = 0
    /\ (etaScan.t.checked /\ etaScan.t.lastEta > etaScan.MaxETA) => etaScan.t.etaSkipped

\* the first of two targets was aborted at result 105 of 2100, its stragglers
\* were dropped, and the second target is being scanned
C17_Witness ==
    /\ etaScan.skipped = 1
    /\ etaScan.target = 2
    /\ etaScan.pc = "loop"
    /\ etaScan.t.completed > 0

(***************************************************************************)
(* Properties of the recursion                                             *)
(***************************************************************************)
\* C18: runRecursive never hands the items of a directory to a worker pool
\* when GET dir/ matches the parent scope's Smart Filter baseline, whether the
\* directory came from an accepted result or from a crawled path.
C18_NoDescentIntoSoft404 ==
    ~(pc = "recpool" /\ rec.dirs[rec.idx] \in Soft404Dirs)

(***************************************************************************)
(* Properties of the filter chain                                          *)
(***************************************************************************)
\* the filters of the chain, as it was before the last Apply, that reject the
\* result of that call
Rejecting ==
    {i \in DOMAIN chainLast.before :
        ShouldFilterOf(chainLast.before[i], chainLast.result)}

\* C19: Apply returns (true, Name of the first filter in insertion order that
\* rejects) or (false, "") when none rejects, and leaves every filter placed
\* after the first rejecting one as it was.
C19_FirstRejectingWins ==
    chainLast.called =>
        IF Rejecting = {}
        THEN ~chainLast.filtered /\ chainLast.reason = ""
        ELSE LET first == CHOOSE i \in Rejecting : \A j \in Rejecting : i <= j
             IN  /\ chainLast.filtered
                 /\ chainLast.reason = Name(chainLast.before[first])
                 /\ Len(chain) = Len(chainLast.before)
                 /\ \A j \in DOMAIN chain : j > first => chain[j] = chainLast.before[j]

\* the size filter rejected a result that the duplicate filter placed after
\* it would have rejected too
C19_Witness ==
    /\ chainLast.called
    /\ chainLast.filtered
    /\ chainLast.reason = "size"
    /\ \E i, j \in Rejecting :
           /\ i < j
           /\ chainLast.before[i].kind = "size"
           /\ chainLast.before[j].kind = "duplicate"
           /\ \A k \in Rejecting : i <= k

(***************************************************************************)
(* Properties of link extraction                                           *)
(***************************************************************************)
\* the reference starts with "#", "javascript:", "mailto:" or "data:" in any
\* letter case (leading white space aside); this covers fragment-only ones
Unfollowable(m) ==
    LET t == TrimLeftTok(m, " ")
    IN  t # <<>> /\ (Head(t) = "#" \/ ToLowerTok(Head(t)) \in {"javascript:", "mailto:", "data:"})

\* the reference resolves to a host that is not the base URL's
CrossOrigin(m, base) ==
    Resolved(m, base).Host # "" /\ Resolved(m, base).Host # base.Host

\* C20: ExtractPaths emits no path for a reference whose resolved host is
\* non-empty and differs from the base URL's host, nor for one that starts
\* with "#", "javascript:", "mailto:" or "data:" (any letter case): every
\* returned path comes from another reference of the body.
C20_ExtractSound ==
    link.pc = "returned" =>
        LET Barred == {i \in DOMAIN link.body :
                          Unfollowable(link.body[i]) \/ CrossOrigin(link.body[i], link.base)}
        IN  /\ \A i \in Barred : ~link.perMatch[i].emit
            /\ \A k \in DOMAIN link.paths :
                   \E i \in DOMAIN link.body \ Barred :
                       link.perMatch[i].emit /\ link.perMatch[i].path = link.paths[k]
            /\ Barred = DOMAIN link.body => link.paths = <<>>

\* a body with //other.com/a and /a: only the second yields a path
C20_Witness ==
    /\ link.pc = "returned"
    /\ link.body = << <<"//other.com", "/", "a">>, KnownReference >>
    /\ link.paths = << <<"a">> >>
    /\ ~link.perMatch[1].emit

(***************************************************************************)
(* Properties of RunWorkerPool                                             *)
(***************************************************************************)
\* every result that exists: received, buffered in the stream, or being sent
ResultsEmitted ==
    consumer.received \o resultsCh.buf
    \o SelectSeq([w \in Workers |-> worker[w].result], LAMBDA r : r # <<>>)

ResultsFor(rs, i) == {k \in DOMAIN rs : rs[k].idx = i}

SameItem(r, item) ==
    r.Method = item.Method /\ r.Path = item.Path /\ r.Host = item.Host

\* C1: when the context is not cancelled and the consumer keeps reading, no
\* item has two results, no item is dequeued or requested twice, and once the
\* consumer has seen the stream closed it has received exactly one result for
\* each item of the input list, with the item's method, path and host, each
\* item dequeued and requested once.
C1_OneResultPerItem ==
    (~ctxDone /\ consumer.state # "stopped") =>
        /\ \A i \in DOMAIN items :
               /\ Cardinality(ResultsFor(ResultsEmitted, i)) <= 1
               /\ poolLog.dequeued[i] <= 1
               /\ poolLog.requested[i] <= 1
        /\ consumer.state = "done" =>
               /\ Len(consumer.received) = Len(items)
               /\ \A i \in DOMAIN items :
                      /\ \E k \in DOMAIN consumer.received :
                             /\ ResultsFor(consumer.received, i) = {k}
                             /\ SameItem(consumer.received[k], items[i])
                      /\ poolLog.dequeued[i] = 1
                      /\ poolLog.requested[i] = 1

C1_Witness ==
    /\ ~ctxDone
    /\ consumer.state = "done"
    /\ threads = 2
    /\ Len(items) = 3
    /\ consumer.received[1].idx = 2
    /\ \E k \in DOMAIN consumer.received : consumer.received[k].Error

AllTerminated ==
    /\ producer.done
    /\ \A w \in Workers : worker[w].pc = "done"
    /\ resultsCh.closes = 1

\* C2: after the worker context is cancelled, the producer and every worker
\* eventually terminate and the results stream is closed, even if the
\* consumer has stopped reading.
C2_CancelTerminates == ctxDone ~> AllTerminated

\* C3: the results stream is closed at most once, only after every worker has
\* exited, no worker sends on it after the close, and a consumer that saw the
\* stream closed saw exactly one close.
C3_ClosedOnceAfterWorkers ==
    /\ resultsCh.closes <= 1
    /\ resultsCh.closes = 1 => \A w \in Workers : worker[w].pc = "done"
    /\ ~poolLog.sentAfterClose
    /\ consumer.state = "done" => resultsCh.closes = 1

C3_Witness ==
    /\ resultsCh.closes = 1
    /\ ctxDone
    /\ threads = 2
    /\ Len(consumer.received) + Len(resultsCh.buf) = 2
    /\ Len(items) = 3

(***************************************************************************)
(* Properties of the scan controller                                       *)
(***************************************************************************)
\* C4: within the scan of one target, no (method, path) pair is handed to a
\* worker pool twice.
C4_NoDoubleScan == submitted.twice = {}

(***************************************************************************)
(* Run: error propagation, calibration failure, the result loops           *)
(***************************************************************************)
\* C21: once runSingleTarget failed at a target because of a global setup
\* error (the proxy URL cannot be parsed, the resume file cannot be loaded),
\* Run starts no further target.
C21_GlobalErrorAbortsRun ==
    \A e \in runLog.setupErr :
        e.step \in {"requester", "resume"}
            => \A k \in DOMAIN runLog.started : runLog.started[k] <= e.target

\* the target runSingleTarget was last called for
CurrentTarget == runLog.started[Len(runLog.started)]

\* the scope whose results are being consumed
CurrentScope == IF run.pc = "recscan" THEN run.dirIdx ELSE 0

\* the chains recorded for scope sc of the current target
ChainsOf(sc) == {c \in runLog.target.chains : c.scope = sc}

\* the items of scope sc whose result was consumed
ConsumedOf(sc) == {e.i : e \in {x \in runLog.target.consumed : x.scope = sc}}

\* C22: when the calibration of a scope fails, the chain of that scope holds
\* no Smart Filter but still the other filters, the scan of the scope is
\* started over every item of the scope, and a target that finishes without
\* being aborted has consumed a result for each of them.
C22_CalibrationFailureKeepsScanning ==
    \A sc \in runLog.target.calFailed :
        /\ \A c \in ChainsOf(sc) : c.filters = <<RunStatusFilter>>
        /\ (sc = 0 /\ \A e \in runLog.setupErr : e.target # CurrentTarget)
               => ChainsOf(sc) # {}
        /\ (run.pc \in {"scan", "recscan"} /\ CurrentScope = sc)
               => /\ Len(run.items) = Len(RunPaths) * Len(RunMethods)
                  /\ run.left \cup ConsumedOf(sc) = DOMAIN run.items
        /\ (runLog.target.finished /\ ~runLog.target.aborted)
               => ConsumedOf(sc) = 1..(Len(RunPaths) * Len(RunMethods))

\* C22 witness: the root scope was calibrated, the calibration of a directory
\* failed, and the catch-all page was written for an item of that directory.
C22_Witness ==
    /\ \E k \in DOMAIN run.chain : run.chain[k].kind = "smart-404"
    /\ 1 \in runLog.target.calFailed
    /\ \E e \in runLog.target.consumed :
          /\ e.scope = 1 /\ e.result.BodyHash = "h1"
          /\ \E k \in DOMAIN runLog.target.sink :
                runLog.target.sink[k] = [scope |-> 1, i |-> e.i]

\* some filter of the chain of the result's scope rejects the result
RejectedByChain(e) ==
    \E c \in ChainsOf(e.scope) :
        \E k \in DOMAIN c.filters : ShouldFilterOf(c.filters[k], e.result)

\* C23: every path in completedPaths is the path of a result that had no
\* error and passed the chain of its scope.
C23_OnlyPassedMarked ==
    \A k \in DOMAIN run.resumeState.CompletedPaths :
        \E e \in runLog.target.consumed :
            /\ e.result.Path = run.resumeState.CompletedPaths[k]
            /\ ~e.result.Error
            /\ ~RejectedByChain(e)

\* the entries handed to out.WriteResult so far: written through, or kept by
\* the writer until the footer
HandedToWriter == runLog.target.sink \o run.out

\* the consumed results an entry stands for
ResultsOf(entry) ==
    {e \in runLog.target.consumed : e.scope = entry.scope /\ e.i = entry.i}

\* C24: what is handed to the writer or to the hook is a result without an
\* error that no filter of its scope's chain rejects; when a target finishes
\* without being aborted, every such result is in the output exactly once.
C24_OutputExactlyThePassed ==
    /\ \A k \in DOMAIN HandedToWriter :
          /\ ResultsOf(HandedToWriter[k]) # {}
          /\ \A e \in ResultsOf(HandedToWriter[k]) : ~e.result.Error /\ ~RejectedByChain(e)
    /\ \A k \in DOMAIN runLog.target.hooked :
          /\ ResultsOf(runLog.target.hooked[k]) # {}
          /\ \A e \in ResultsOf(runLog.target.hooked[k]) :
                ~e.result.Error /\ ~RejectedByChain(e)
    /\ (runLog.target.finished /\ ~runLog.target.aborted)
          => \A e \in runLog.target.consumed :
                (~e.result.Error /\ ~RejectedByChain(e))
                    => Cardinality({k \in DOMAIN runLog.target.sink :
                                       runLog.target.sink[k] = [scope |-> e.scope, i |-> e.i]}) = 1

\* C24 witness: a target finished without being aborted; one of its results
\* had an error, one was rejected by the chain, one was written and hooked.
C24_Witness ==
    /\ runLog.target.finished /\ ~runLog.target.aborted
    /\ \E e \in runLog.target.consumed : e.result.Error
    /\ \E e \in runLog.target.consumed : ~e.result.Error /\ RejectedByChain(e)
    /\ Len(runLog.target.sink) >= 1
    /\ Len(runLog.target.hooked) >= 1

(***************************************************************************)
(* RunWorkerPool: progress                                                 *)
(***************************************************************************)
\* a result was emitted for every item and the results stream is closed
PoolCompleted ==
    /\ resultsCh.closes = 1
    /\ \A i \in DOMAIN items :
          \E k \in DOMAIN (consumer.received \o resultsCh.buf) :
              (consumer.received \o resultsCh.buf)[k].idx = i

Held == pauser.present /\ pauser.paused

\* C25: with a context that is never cancelled, a reader that keeps reading
\* and requests that return, if the Pauser is released again and again then
\* a result is eventually emitted for every item and the stream is closed.
C25_PoolCompletes == ([]<>~Held) => <>PoolCompleted

\* C25, amended: the same when the Pauser is eventually released for good.
C25_PoolCompletesOnceReleased == (<>[]~Held) => <>PoolCompleted

\* C25 witness: three items went through two workers of a pool that has a
\* Pauser, and the stream is closed.
C25_Witness ==
    /\ PoolCompleted
    /\ pauser.present
    /\ threads = 2
    /\ Len(items) = 3
    /\ consumer.state = "done"

\* the error results that exist for item i
ErrorResultsFor(i) ==
    {k \in DOMAIN ResultsEmitted : ResultsEmitted[k].idx = i /\ ResultsEmitted[k].Error}

\* C26: for every item, RecordError was called as often as there are error
\* results for it, at most once, and such a result carries the item's method,
\* host and path; a worker that found the context cancelled after a failed
\* request left no result for the item and did not call RecordError.
C26_ErrorResultOrSilentExit ==
    \A i \in DOMAIN items :
        /\ poolLog.errorsRecorded[i] <= 1
        /\ Cardinality(ErrorResultsFor(i)) = poolLog.errorsRecorded[i]
        /\ \A k \in ErrorResultsFor(i) : SameItem(ResultsEmitted[k], items[i])
        /\ i \in poolLog.silent =>
               /\ ctxDone
               /\ ResultsFor(ResultsEmitted, i) = {}
               /\ poolLog.errorsRecorded[i] = 0

\* C26 witness: the request of one item failed before the cancellation and
\* its error result was received; the request of another failed after it.
C26_Witness ==
    /\ \E k \in DOMAIN consumer.received :
          /\ consumer.received[k].Error
          /\ poolLog.errorsRecorded[consumer.received[k].idx] = 1
    /\ poolLog.silent # {}

(***************************************************************************)
(* Throttler: the two recording operations                                 *)
(***************************************************************************)
\* C27: with adaptive throttling enabled, RecordStatus(429 or 503) increments
\* consecutive and sets currentDelay to min(30 s, max(500 ms, 2 * currentDelay));
\* RecordStatus of another code leaves the state alone when consecutive = 0 and
\* otherwise resets consecutive and sets currentDelay to
\* max(baseDelay, currentDelay / 2).
C27_RecordStatusRule ==
    [][(throttler.enabled /\ ThRecordStatus) =>
          IF healthyRun' = 0
          THEN throttler' =
                 [throttler EXCEPT
                    !.consecutive = @ + 1,
                    !.currentDelay = Min(30000, Max(500, 2 * throttler.currentDelay))]
          ELSE IF throttler.consecutive > 0
          THEN throttler' =
                 [throttler EXCEPT
                    !.consecutive = 0,
                    !.currentDelay = Max(throttler.baseDelay, throttler.currentDelay \div 2)]
          ELSE throttler' = throttler]_vars

\* C27 witness: base 100 ms, two signals took the delay to 1 s, one healthy
\* response halved it to 500 ms.
C27_Witness ==
    /\ throttler.enabled
    /\ throttler.baseDelay = 100
    /\ throttler.consecutive = 0
    /\ healthyRun = 1
    /\ throttler.currentDelay = 500

\* C28: with adaptive throttling enabled, RecordError increments consecutive;
\* the first and the second error in a row leave currentDelay unchanged, the
\* third applies the doubling rule.
C28_ThirdErrorBacksOff ==
    [][(throttler.enabled /\ ThRecordError) =>
          /\ throttler'.consecutive = throttler.consecutive + 1
          /\ errorRun' <= 2 => throttler'.currentDelay = throttler.currentDelay
          /\ errorRun' = 3 =>
                throttler'.currentDelay =
                    Min(30000, Max(500, 2 * throttler.currentDelay))]_vars

\* C28, amended: RecordError increments consecutive, the counter RecordStatus
\* increments for a 429 or 503; it applies the doubling rule when the
\* incremented counter is 3 or more and leaves currentDelay unchanged otherwise.
C28_BacksOffFromThirdSignal ==
    [][(throttler.enabled /\ ThRecordError) =>
          /\ throttler'.consecutive = throttler.consecutive + 1
          /\ throttler'.currentDelay =
                IF throttler.consecutive + 1 >= 3
                THEN Min(30000, Max(500, 2 * throttler.currentDelay))
                ELSE throttler.currentDelay]_vars

\* C28 witness: three errors in a row on a fresh throttler with base 100 ms:
\* the third took the delay to 500 ms.
C28_Witness ==
    /\ throttler.enabled
    /\ throttler.baseDelay = 100
    /\ errorRun = 3
    /\ throttler.consecutive = 3
    /\ throttler.currentDelay = 500

(***************************************************************************)
(* Pauser: the moment Wait returns                                         *)
(***************************************************************************)
\* the step in which goroutine g leaves the loop of Wait and unlocks
LeavesWait(g) == waiters[g].pc # "returned" /\ waiters'[g].pc = "returned"

\* C29: Wait returns without blocking when the gate is not paused, and under
\* every interleaving of Wait and Toggle calls paused is false at the moment a
\* goroutine returns from Wait.
C29_WaitReturnsOnlyWhenRunning ==
    [][\A g \in Waiters :
          /\ LeavesWait(g) => ~gate.paused /\ ~gate'.paused
          /\ (waiters[g].pc = "out" /\ waiters'[g].pc # "out" /\ ~gate.paused) =>
                 waiters'[g] = [pc |-> "returned", blocked |-> FALSE]]_vars

\* C29 witness: after a pause, a resume and a second pause and resume, one
\* goroutine has returned from Wait after blocking and another has returned
\* without blocking.
C29_Witness ==
    /\ gate.toggles = MaxToggles
    /\ ~gate.paused
    /\ \E g, h \in Waiters :
          /\ waiters[g] = [pc |-> "returned", blocked |-> TRUE]
          /\ waiters[h] = [pc |-> "returned", blocked |-> FALSE]

(***************************************************************************)
(* Calibration                                                             *)
(***************************************************************************)
\* the successful probes with status S, by position
ProbesWith(S) == {i \in 1..Len(probeRun.results) : probeRun.results[i].statusCode = S}

\* all probes of status S have one body hash
SameHash(S) ==
    \A i, j \in ProbesWith(S) :
        probeRun.results[i].bodyHash = probeRun.results[j].bodyHash

\* the median of a metric over the probes of status S: the value with at most
\* half of the group below it and more than half of the group at or below it
MedianOf(S, metric(_)) ==
    LET n == Cardinality(ProbesWith(S))
    IN  CHOOSE v \in {metric(probeRun.results[i]) : i \in ProbesWith(S)} :
            /\ Cardinality({i \in ProbesWith(S) : metric(probeRun.results[i]) < v})
                   <= n \div 2
            /\ Cardinality({i \in ProbesWith(S) : metric(probeRun.results[i]) <= v})
                   > n \div 2

LengthOf(r) == r.contentLength
WordsOf(r) == r.wordCount
LinesOf(r) == r.lineCount

\* every probe of status S is within threshold bytes of the median length
Converges(S) ==
    \A i \in ProbesWith(S) :
        Abs(probeRun.results[i].contentLength - MedianOf(S, LengthOf))
            <= probeRun.threshold

\* status S yields a baseline
YieldsBaseline(S) ==
    /\ Cardinality(ProbesWith(S)) >= 2
    /\ SameHash(S) \/ Converges(S)

\* the baselines the calibration built for status S
BuiltFor(S) ==
    IF sf.state = "ready"
    THEN {k \in 1..Len(sf.baselines) : sf.baselines[k].statusCode = S}
    ELSE {}

\* C30: calibration builds a baseline for status S exactly when at least 2
\* successful probes have status S and either all their body hashes are equal
\* (EXACT_HASH, the fingerprint of the probes) or every probe's length is
\* within threshold bytes of the group's median length (FUZZY_LENGTH, the
\* median length, word count and line count); it returns an error exactly when
\* fewer than 2 probes succeeded or no status yields a baseline.
C30_BaselineExactlyWhen ==
    (probeRun.given /\ sf.state # "new") =>
        /\ \A S \in {200, 404} :
              /\ Cardinality(BuiltFor(S)) = IF YieldsBaseline(S) THEN 1 ELSE 0
              /\ \A k \in BuiltFor(S) :
                    LET b == sf.baselines[k]
                    IN  IF SameHash(S)
                        THEN /\ b.mode = matchHashExact
                             /\ \A i \in ProbesWith(S) :
                                   Fingerprint(b.statusCode, b.contentLength, b.bodyHash,
                                               b.wordCount, b.lineCount)
                                       = probeRun.results[i]
                        ELSE /\ b.mode = matchFuzzyLength
                             /\ b.contentLength = MedianOf(S, LengthOf)
                             /\ b.wordCount = MedianOf(S, WordsOf)
                             /\ b.lineCount = MedianOf(S, LinesOf)
        /\ sf.state = "none" <=>
              \/ Len(probeRun.results) < 2
              \/ \A S \in {200, 404} : ~YieldsBaseline(S)

\* C30 witness: four probes, threshold 10: two 200 probes with one body hash
\* give an EXACT_HASH baseline, two 404 probes of 130 and 140 bytes with
\* different hashes give a FUZZY_LENGTH baseline.
C30_Witness ==
    /\ probeRun.given
    /\ sf.state = "ready"
    /\ probeRun.threshold = 10
    /\ Len(probeRun.results) = 4
    /\ \E k \in BuiltFor(200) : sf.baselines[k].mode = matchHashExact
    /\ \E k \in BuiltFor(404) :
          /\ sf.baselines[k].mode = matchFuzzyLength
          /\ sf.baselines[k].contentLength = 140

(***************************************************************************)
(* SmartFilter: empty 200 responses                                        *)
(***************************************************************************)
\* C31: every result with status 200 and content length 0 is filtered by the
\* smart filter, whatever baselines the calibration produced.
C31_Empty200Filtered ==
    (sfLast.called /\ EmptyOK(sfLast.result)) => sfLast.filtered

\* C31 witness: the calibration built a baseline for 404 only, and an empty 200
\* response was filtered.
C31_Witness ==
    /\ sfLast.called
    /\ EmptyOK(sfLast.result)
    /\ sf.state = "ready"
    /\ \A k \in 1..Len(sf.baselines) : sf.baselines[k].statusCode # 200
    /\ sfLast.filtered

HaveRead == {g \in Callers : conc.callers[g].pc \in {"incFuzzy", "readFuzzy", "unlock", "test", "done"}}

\* C33: when N goroutines call ShouldFilter at the same time with results of
\* one (statusCode, bodyHash) key, each reads the value its own increment
\* produced (no two read the same count), and exactly min(N, T) of the calls
\* return false, under every interleaving.
C33_ExactlyMinNTPass ==
    /\ \A g, h \in HaveRead :
          g # h => conc.callers[g].exactCount # conc.callers[h].exactCount
    /\ (\A g \in Callers : conc.callers[g].pc = "done") =>
          Cardinality({g \in Callers : ~conc.callers[g].ret})
              = Min(Cardinality(Callers), conc.d.threshold)

\* C33 witness: three goroutines called the filter of threshold 2 and all
\* returned; one call was filtered.
C33_Witness ==
    /\ Cardinality(Callers) = MaxCallers
    /\ conc.d.threshold = 2
    /\ \A g \in Callers : conc.callers[g].pc = "done"
    /\ Cardinality({g \in Callers : conc.callers[g].ret}) = 1

(***************************************************************************)
(* The order of the filters in the chains of a scan                        *)
(***************************************************************************)
\* the position of a filter in the order status, size, smart-404, duplicate,
\* body-match, body-exclude
Rank(name) ==
    CASE name = "status" -> 1
      [] name = "size" -> 2
      [] name = "smart-404" -> 3
      [] name = "duplicate" -> 4
      [] name = "body-match" -> 5
      [] name = "body-exclude" -> 6

\* the filters of a chain follow the order
InOrder(filters) ==
    \A i, j \in 1..Len(filters) :
        i < j => Rank(Name(filters[i])) < Rank(Name(filters[j]))

\* the filters of a chain that reject a result
RejectingIn(filters, result) ==
    {k \in 1..Len(filters) : ShouldFilterOf(filters[k], result)}

\* C34: in every scope (the root and each directory recursed into) the filters
\* of the chain are installed in the order status, size, smart-404, duplicate,
\* body-match, body-exclude, so a result that several filters reject is
\* reported with the name of the earliest filter of that order.
C34_FiltersInOrder ==
    /\ scopes.at \in {"root", "dir"} => InOrder(scopes.root)
    /\ scopes.at = "dir" => InOrder(scopes.dirChain)
    /\ (scopes.at \in {"root", "dir"} /\ scopes.applied /\ scopes.last.filtered) =>
          \A k \in RejectingIn(ScopeChain, scopes.last.result) :
              Rank(scopes.last.reason) <= Rank(Name(ScopeChain[k]))

(***************************************************************************)
(* Properties of the recursion                                             *)
(***************************************************************************)
InRecursion == pc \in {"rec", "recpool"}

\* the directory-looking results that passed the chain at one level of one
\* runRecursive call
AcceptedDirsAt(call, depth) ==
    {a.path : a \in {x \in recLog.accepted : x.call = call /\ x.depth = depth}}

RecursionLevelwise ==
    /\ \A l \in recLog.levels :
        /\ l.depth <= opts.MaxDepth
        /\ l.depth > 1 => l.dir \in AcceptedDirsAt(l.call, l.depth - 1)
        /\ l.depth = 1 => l.dir \in recLog.outside
        /\ InRecursion /\ l.call = rec.after => l.depth <= rec.depth
    /\ \A call \in {"crawl0", "done"}, d \in 1..MaxMaxDepth :
        AcceptedDirsAt(call, d) = {} =>
            ~\E l \in recLog.levels : l.call = call /\ l.depth > d

\* C35: recursion scans no directory at a depth greater than opts.MaxDepth;
\* the directories of a level beyond the first are paths of results accepted
\* at the level before (those of the first level come from results accepted
\* by the root scan or a crawl pass); a level is finished before the next one
\* starts; no level follows one that accepted no directory; and every call
\* of runRecursive returns.
C35_RecursionLevelwiseAndTerminates ==
    /\ []RecursionLevelwise
    /\ InRecursion ~> ~InRecursion

C35_Witness ==
    /\ pc = "done"
    /\ opts.MaxDepth = 2
    /\ \E l \in recLog.levels : l.depth = 2
    /\ \E a \in recLog.accepted : a.depth = 2

\* the filters of a chain that are neither a Smart nor a Duplicate filter
CarriedOver(filters) ==
    SelectSeq(filters, LAMBDA f : Name(f) \notin {"smart-404", "duplicate"})

IsPrefix(p, q) == Len(p) <= Len(q) /\ SubSeq(q, 1, Len(p)) = p

\* C36: the chain of a directory recursed into holds the filters of the
\* parent chain other than the Smart and Duplicate filters; its Smart Filter
\* was calibrated with probes sent to paths under dir/; and it holds a new
\* Duplicate Filter.
C36_DirScopeChain ==
    scopes.at = "dir" =>
        /\ CarriedOver(scopes.dirChain) = CarriedOver(scopes.root)
        /\ \A p \in scopes.probed :
               p.at = "dir" => IsPrefix(<<"/">> \o scopes.dirName \o <<"/">>, p.path)
        /\ \E i \in DOMAIN scopes.dirChain : Name(scopes.dirChain[i]) = "duplicate"

(***************************************************************************)
(* Properties of the crawl passes                                          *)
(***************************************************************************)
InCrawl == pc \in {"crawl", "crawlpool"}

CrawlOnlyNewPaths ==
    /\ recLog.passes <= opts.CrawlDepth
    /\ recLog.crawled \cap SeqSet(opts.paths) = {}
    /\ recLog.crawledTwice = {}
    /\ recLog.crawled \subseteq scannedSet

\* C37: at most opts.CrawlDepth crawl passes run; a path handed to a crawl
\* pass is no path of the root work items and was handed to no crawl pass
\* before, so no crawl-discovered path is enqueued twice; and runCrawlPasses
\* returns.
C37_CrawlPassesBoundedAndNew ==
    /\ []CrawlOnlyNewPaths
    /\ InCrawl ~> ~InCrawl

C37_Witness ==
    /\ pc = "done"
    /\ recLog.passes = 2
    /\ opts.CrawlDepth = 2
    /\ Cardinality(recLog.crawled) >= 2

(***************************************************************************)
(* Properties of the pool under a paused gate                              *)
(***************************************************************************)
Paused == pauser.present /\ pauser.paused

RECURSIVE SumOver(_, _)
SumOver(f, S) ==
    IF S = {} THEN 0
    ELSE LET x == CHOOSE y \in S : TRUE IN f[x] + SumOver(f, S \ {x})

\* the number of results the workers sent since the gate was paused
SentSincePause == SumOver([w \in Workers |-> Len(poolLog.sentPaused[w])], Workers)

\* C38: while the Pauser is paused, the workers have sent at most threads
\* results since the pause; what a worker sent since then is at most the one
\* item it held past Wait() when the gate closed; and a worker past Wait()
\* holds that item, so no request of an item dequeued after the pause or
\* held in front of Wait() begins.
C38_PausedPoolEmitsAtMostThreads ==
    Paused =>
        /\ SentSincePause <= threads
        /\ \A w \in Workers :
            /\ Len(poolLog.sentPaused[w]) <= 1
            /\ \A k \in DOMAIN poolLog.sentPaused[w] :
                   poolLog.sentPaused[w][k] = poolLog.heldAtPause[w]
            /\ PastWait(w) # 0 =>
                   /\ PastWait(w) = poolLog.heldAtPause[w]
                   /\ poolLog.sentPaused[w] = <<>>

C38_Witness ==
    /\ Paused
    /\ threads = 2
    /\ SentSincePause = threads
    /\ \E w \in Workers : worker[w].pc = "pause" /\ worker[w].item # 0

(***************************************************************************)
(* Properties of the counters                                              *)
(***************************************************************************)
\* C39: in a scan the ETA check did not abort, after every result consumed
\* the found, filtered and error counters of progress count the results that
\* passed, were filtered and had an error, one counter per result, so that
\* completed = found + filtered + errors at the end of each scope; and the
\* footer carries the numbers of filtered and errored results of the root,
\* recursion and crawl scopes.
C39_CountersAddUp ==
    ~tally.etaSkipped =>
        /\ tally.found = tally.log.passed
        /\ tally.filtered = tally.log.filteredOut
        /\ tally.errors = tally.log.errored
        /\ tally.completed = tally.found + tally.filtered + tally.errors
        /\ tally.footer.written =>
               /\ tally.footer.FilteredCount = tally.log.filteredOut
               /\ tally.footer.ErrorCount = tally.log.errored

C39_Witness ==
    /\ ~tally.etaSkipped
    /\ tally.footer.written
    /\ tally.maxETA /\ tally.total = EtaMinCompleted
    /\ tally.recItems > 0 /\ tally.crawlItems > 0
    /\ tally.log.errored > tally.recItems + tally.crawlItems
    /\ tally.log.filteredOut > tally.recItems + tally.crawlItems
    /\ tally.log.passed > tally.recItems + tally.crawlItems

\* C40: with several methods, a path is in completedPaths (in the state in
\* memory and in any file saved for this target) only when no work item of
\* that path is still without a consumed result, so that a scan resumed from
\* the file still probes every such item.
C40_PathCompleteAfterAllMethods ==
    resume.pc = "scan" =>
        \A item \in resume.todo :
            /\ item.Path \notin resumeState.done
            /\ (file.exists /\ file.url = resume.url) =>
                   item.Path \notin SeqSet(file.completed)

====
